---- MODULE Spec2Model ----
(***************************************************************************)
(* Model of the ealloora mobile client: the device-status derivation of    *)
(* the device list screen (app/(private)/device.tsx) and the authenticated *)
(* request layer (core/requestsHelper.ts).                                 *)
(***************************************************************************)
EXTENDS Integers, Sequences, FiniteSets, TLC

VARIABLES
    device,       \* the device record handed to renderDeviceCard
    now,          \* wall clock, in ms (what `new Date()` reads)
    view,         \* what the last renderDeviceCard computed, or NoView
    currentUser,  \* firebaseAuth.currentUser: a uid, or NoUser
    calls,        \* the calls of the request layer, each with its position
    storedLang,   \* AsyncStorage 'lang'
    emitted,      \* the '_langChanged' events emitted, oldest first
    lang,         \* the language the screens show (their `lang` state)
    notif,        \* the NotificationsProvider with the device list it refreshes
    auth,         \* the AuthProvider: its `user` and `isLoading` states
    nav,          \* the router: the route group shown, and the guard's effect
    subs,         \* the listeners and the timer of the NotificationsProvider
    screen        \* the device list screen: its states and its loads in flight

cardVars == <<device, now, view>>
requestVars == <<currentUser, calls, storedLang, emitted>>
appVars == <<auth, nav, subs, screen>>
screenVars == <<lang, notif, auth, nav, subs, screen>>
vars == <<device, now, view, currentUser, calls, storedLang, emitted, lang, notif,
          auth, nav, subs, screen>>

(***************************************************************************)
(* JavaScript values.  A device record is untyped JSON (`device: any`), so *)
(* the model keeps the dynamic types: every value carries its type tag.    *)
(***************************************************************************)
Undef == [t |-> "undefined"]
Null == [t |-> "null"]
Bool(b) == [t |-> "boolean", b |-> b]
Num(n) == [t |-> "number", n |-> n]
NaN == [t |-> "number", nan |-> TRUE]
Str(s) == [t |-> "string", s |-> s]
\* a string holding the ISO form of the instant ms (what the server sends in updated_on)
DateStr(ms) == [t |-> "string", iso |-> ms]
Obj(f) == [t |-> "object", f |-> f]
Arr(a) == [t |-> "array", a |-> a]
\* the completion of an expression that raised a TypeError
Throw == [t |-> "throw"]

IsNullish(v) == v.t \in {"undefined", "null"}

\* ToBoolean
Truthy(v) ==
    CASE v.t \in {"undefined", "null"} -> FALSE
      [] v.t = "boolean" -> v.b
      [] v.t = "number" -> IF "nan" \in DOMAIN v THEN FALSE ELSE v.n # 0
      [] v.t = "string" -> IF "s" \in DOMAIN v THEN v.s # "" ELSE TRUE
      [] OTHER -> TRUE

\* a || b
Or(a, b) == IF Truthy(a) THEN a ELSE b

\* a === b, on primitives (NaN is not equal to itself)
StrictEq(a, b) == a = b /\ a # NaN

\* v.k : a TypeError on undefined and null, undefined when there is no such property
Get(v, k) ==
    IF IsNullish(v) THEN Throw
    ELSE IF v.t = "object" /\ k \in DOMAIN v.f THEN v.f[k]
    ELSE Undef

\* v?.k
OptGet(v, k) == IF IsNullish(v) THEN Undef ELSE Get(v, k)

\* v?.[i], i counted from 0
OptIndex(v, i) ==
    IF IsNullish(v) THEN Undef
    ELSE IF v.t = "array" /\ i + 1 \in DOMAIN v.a THEN v.a[i + 1]
    ELSE Undef

\* list.includes(v)
Includes(list, v) == \E i \in DOMAIN list : StrictEq(list[i], v)

\* new Date(v).getTime() : the instant an ISO string denotes, NaN for any other string
DateGetTime(v) == IF v.t = "string" /\ "iso" \in DOMAIN v THEN Num(v.iso) ELSE NaN

MsPerHour == 1000 * 60 * 60
FreshHours == 24

\* mutant: the 24 hour limit taken inclusively
HoursDiffIsFreshInclusive(nowMs, lastUpdate) ==
    IF lastUpdate = NaN THEN FALSE
    ELSE (nowMs - lastUpdate.n) <= 24 * (1000 * 60 * 60)

\* (now.getTime() - lastUpdate.getTime()) / (1000 * 60 * 60) < 24; the quotient is
\* below 24 exactly when the difference in ms is below 24 * 3600000, and any
\* comparison with NaN is false
HoursDiffIsFresh(nowMs, lastUpdate) ==
    IF lastUpdate = NaN THEN FALSE
    ELSE (nowMs - lastUpdate.n) < FreshHours * MsPerHour

(***************************************************************************)
(* getConnectionState                                                      *)
(***************************************************************************)
Result(status, label) == [status |-> status, label |-> label]
Threw == [status |-> "throw", label |-> "TypeError"]

activeStates == <<Str("OK"), Str("ARMED"), Str("MONITORING")>>
\* mutant: DISCONNECTED left out of the inactive names
inactiveStatesShort == <<Str("DISARMED"), Str("OFF")>>
inactiveStates == <<Str("DISARMED"), Str("OFF"), Str("DISCONNECTED")>>

\* const modeId = device.mode?.mode_id || device.mode_id
ModeIdOf(d) == Or(OptGet(Get(d, "mode"), "mode_id"), Get(d, "mode_id"))

\* Prioridad 4 and the default
RecencyTier(d, nowMs) ==
    LET updatedOn == Get(d, "updated_on") IN
    IF Truthy(updatedOn) /\ HoursDiffIsFresh(nowMs, DateGetTime(updatedOn))
    THEN Result("ok", "Connected")
    ELSE Result("warning", "No recent data available")

\* mutant: the temperature tested for truthiness, as getDeviceState does
TermoTierTruthyTemp(d, nowMs) ==
    LET lastTermoData == OptIndex(Get(d, "last_termo_data"), 0) IN
    IF StrictEq(OptGet(Get(d, "type"), "types_name"), Str("termo"))
       /\ Truthy(lastTermoData) /\ Truthy(Get(lastTermoData, "temperature"))
    THEN Result("ok", "Connected")
    ELSE RecencyTier(d, nowMs)

\* mutant: the termo tier applied to every type
TermoTierAnyType(d, nowMs) ==
    LET lastTermoData == OptIndex(Get(d, "last_termo_data"), 0) IN
    IF Truthy(lastTermoData) /\ ~IsNullish(Get(lastTermoData, "temperature"))
    THEN Result("ok", "Connected")
    ELSE RecencyTier(d, nowMs)

\* Prioridad 3, then 4
TermoTier(d, nowMs) ==
    LET lastTermoData == OptIndex(Get(d, "last_termo_data"), 0)
        temperature == Get(lastTermoData, "temperature")
    IN
    IF StrictEq(OptGet(Get(d, "type"), "types_name"), Str("termo")) /\ Truthy(lastTermoData)
    THEN IF temperature = Throw THEN Threw
         ELSE IF ~IsNullish(temperature) THEN Result("ok", "Connected")
         ELSE RecencyTier(d, nowMs)
    ELSE RecencyTier(d, nowMs)

\* mutant: the state names tested before the alarm flag
FamilyTierNamesFirst(d, nowMs) ==
    LET lastWatchFamilyData == OptIndex(Get(d, "last_watch_family_data"), 0)
        state == OptGet(lastWatchFamilyData, "state")
    IN
    IF ~Truthy(lastWatchFamilyData) THEN TermoTier(d, nowMs)
    ELSE IF Includes(activeStates, OptGet(state, "state_name"))
    THEN Result("ok", "Connected")
    ELSE IF Includes(inactiveStates, OptGet(state, "state_name"))
    THEN Result("ko", "Disconnected")
    ELSE IF StrictEq(OptGet(state, "is_alarm"), Bool(TRUE))
    THEN Result("alarm", "Active Alarm")
    ELSE TermoTier(d, nowMs)

\* mutant: an unrecognised state name ends the search with the default
FamilyTierNoFallThrough(d, nowMs) ==
    LET lastWatchFamilyData == OptIndex(Get(d, "last_watch_family_data"), 0)
        state == OptGet(lastWatchFamilyData, "state")
    IN
    IF ~Truthy(lastWatchFamilyData) THEN TermoTier(d, nowMs)
    ELSE IF StrictEq(OptGet(state, "is_alarm"), Bool(TRUE))
    THEN Result("alarm", "Active Alarm")
    ELSE IF Includes(activeStates, OptGet(state, "state_name"))
    THEN Result("ok", "Connected")
    ELSE IF Includes(inactiveStates, OptGet(state, "state_name"))
    THEN Result("ko", "Disconnected")
    ELSE Result("warning", "No recent data available")

\* mutant: the snapshot read without the `if (lastWatchFamilyData)` guard
FamilyTierUnguarded(d, nowMs) ==
    LET lastWatchFamilyData == OptIndex(Get(d, "last_watch_family_data"), 0)
        state == Get(lastWatchFamilyData, "state")
    IN
    IF state = Throw THEN Threw
    ELSE IF StrictEq(OptGet(state, "is_alarm"), Bool(TRUE))
    THEN Result("alarm", "Active Alarm")
    ELSE IF Includes(activeStates, OptGet(state, "state_name"))
    THEN Result("ok", "Connected")
    ELSE IF Includes(inactiveStates, OptGet(state, "state_name"))
    THEN Result("ko", "Disconnected")
    ELSE TermoTier(d, nowMs)

\* Prioridad 2, then 3
FamilyTier(d, nowMs) ==
    LET lastWatchFamilyData == OptIndex(Get(d, "last_watch_family_data"), 0) IN
    IF ~Truthy(lastWatchFamilyData) THEN TermoTier(d, nowMs)
    ELSE LET state == Get(lastWatchFamilyData, "state") IN
         IF state = Throw THEN Threw
         ELSE IF StrictEq(OptGet(state, "is_alarm"), Bool(TRUE))
         THEN Result("alarm", "Active Alarm")
         ELSE IF Includes(activeStates, OptGet(state, "state_name"))
         THEN Result("ok", "Connected")
         ELSE IF Includes(inactiveStates, OptGet(state, "state_name"))
         THEN Result("ko", "Disconnected")
         ELSE TermoTier(d, nowMs)

\* mutant: the mode tested after the family snapshot
getConnectionStateModeLast(d, nowMs) ==
    LET r == FamilyTier(d, nowMs) IN
    IF r.status = "alarm" THEN r
    ELSE IF ~StrictEq(ModeIdOf(d), Num(1)) THEN Result("ko", "Disconnected")
    ELSE r

getConnectionState(d, nowMs) ==
    IF ~StrictEq(ModeIdOf(d), Num(1)) THEN Result("ko", "Disconnected")
    ELSE FamilyTier(d, nowMs)

\* `${v}` followed by a unit
Template(v, unit) ==
    IF v.t = "number" THEN Str(ToString(v.n) \o unit)
    ELSE IF v.t = "string" /\ "s" \in DOMAIN v THEN Str(v.s \o unit)
    ELSE Str("?" \o unit)

(***************************************************************************)
(* getDeviceState: the state text of a card                                *)
(***************************************************************************)
\* mutant: any truthy alarm value shown as an alarm
LegacyStateTruthy(d) ==
    LET lastData == OptIndex(Get(d, "last_watch_data"), 0) IN
    IF Truthy(lastData) /\ ~IsNullish(Get(lastData, "alarm"))
    THEN IF Truthy(Get(lastData, "alarm")) THEN Str("Alarm") ELSE Str("Normal")
    ELSE Str("-")

LegacyState(d) ==
    LET lastData == OptIndex(Get(d, "last_watch_data"), 0) IN
    IF Truthy(lastData) /\ ~IsNullish(Get(lastData, "alarm"))
    THEN IF StrictEq(Get(lastData, "alarm"), Num(1)) THEN Str("Alarm") ELSE Str("Normal")
    ELSE Str("-")

FamilyState(state) ==
    LET name == Get(state, "state_name") IN
    IF StrictEq(Get(state, "is_alarm"), Bool(TRUE)) THEN Str("ALARM")
    ELSE IF StrictEq(name, Str("OK")) THEN Str("OK")
    ELSE IF StrictEq(name, Str("DISARMED")) THEN Str("Disarmed")
    ELSE IF StrictEq(name, Str("ARMED")) THEN Str("Armed")
    ELSE IF StrictEq(name, Str("MONITORING")) THEN Str("Monitoring")
    ELSE Or(name, Str("Unknown"))

getDeviceState(d) ==
    LET type == OptGet(Get(d, "type"), "types_name")
        temperature == OptGet(OptIndex(Get(d, "last_termo_data"), 0), "temperature")
        lastWatchFamilyData == OptIndex(Get(d, "last_watch_family_data"), 0)
    IN
    IF StrictEq(type, Str("termo"))
    THEN IF Truthy(temperature) THEN Template(temperature, "C") ELSE Str("-")
    ELSE IF Truthy(lastWatchFamilyData) /\ Truthy(Get(lastWatchFamilyData, "state"))
         THEN FamilyState(Get(lastWatchFamilyData, "state"))
         ELSE LegacyState(d)

(***************************************************************************)
(* needsAttention: a second evaluation of getConnectionState, with its own *)
(* reading of the clock                                                    *)
(***************************************************************************)
\* mutant: a warning counted as needing attention
needsAttentionWarning(d, nowMs) ==
    LET connectionState == getConnectionState(d, nowMs) IN
    connectionState.status # "ok"

needsAttention(d, nowMs) ==
    LET connectionState == getConnectionState(d, nowMs) IN
    connectionState.status = "alarm" \/ connectionState.status = "ko"

(***************************************************************************)
(* The device records the server may deliver                               *)
(***************************************************************************)
\* the instant of the first render
T0 == 30 * MsPerHour
\* how many hours the clock may run ahead of T0
MaxHours == 1

ModeValues ==
    {Undef} \cup {Obj([mode_id |-> m]) : m \in {Num(0), Num(1), Num(2), Str("1")}}
ModeIdValues == {Undef, Num(1)}
StateNames ==
    {Undef} \cup {Str(s) : s \in
        {"OK", "ARMED", "MONITORING", "DISARMED", "OFF", "DISCONNECTED", "LEAK"}}
FamilyEntry(state) == Arr(<<Obj([state |-> state])>>)
FamilyValues ==
    {Undef, Arr(<<>>), Arr(<<Obj(<<>>)>>)}
    \cup {FamilyEntry(Obj([is_alarm |-> Bool(a), state_name |-> n])) :
             a \in BOOLEAN, n \in StateNames}
    \cup {FamilyEntry(Obj([state_name |-> Str("ARMED")])),
          FamilyEntry(Obj([is_alarm |-> Num(1), state_name |-> Str("OK")])),
          FamilyEntry(Obj([is_alarm |-> Num(1), state_name |-> Str("LEAK")]))}
TypeValues == {Undef} \cup {Obj([types_name |-> Str(s)]) : s \in {"termo", "watch"}}
TermoValues ==
    {Undef} \cup {Arr(<<Obj([temperature |-> v])>>) : v \in {Null, Num(0), Num(-5), Num(21)}}
\* absent, unparseable, 1 ms short of 24 h before T0, exactly 24 h before T0,
\* 2 h before T0, and 5 h after T0 (a clock skewed against the server's)
UpdatedOnValues ==
    {Undef, Str("n/a"),
     DateStr(T0 - FreshHours * MsPerHour + 1),
     DateStr(T0 - FreshHours * MsPerHour),
     DateStr(T0 - 2 * MsPerHour),
     DateStr(T0 + 5 * MsPerHour)}
LegacyValues == {Undef} \cup {Arr(<<Obj([alarm |-> Num(a)])>>) : a \in {0, 1}}

Device(mode, modeId, family, type, termo, updatedOn, legacy) ==
    Obj([mode |-> mode, mode_id |-> modeId, last_watch_family_data |-> family,
         type |-> type, last_termo_data |-> termo, updated_on |-> updatedOn,
         last_watch_data |-> legacy])

Devices ==
    {Device(m, i, f, ty, td, u, lw) :
        m \in ModeValues, i \in ModeIdValues, f \in FamilyValues, ty \in TypeValues,
        td \in TermoValues, u \in UpdatedOnValues, lw \in LegacyValues}

(***************************************************************************)
(* renderDeviceCard                                                        *)
(***************************************************************************)
NoView == [rendered |-> FALSE]

\* the card computes the connection state, then the state text, then asks
\* needsAttention, which reads the clock again (at `later`)
renderDeviceCard(d, nowMs, later) ==
    [rendered |-> TRUE,
     at |-> nowMs,
     connectionState |-> getConnectionState(d, nowMs),
     deviceState |-> getDeviceState(d),
     attention |-> needsAttention(d, later)]

CardInit ==
    /\ device \in Devices
    /\ now = T0
    /\ view = NoView

Render ==
    /\ \E later \in {now, now + MsPerHour} :
        /\ later <= T0 + MaxHours * MsPerHour
        /\ view' = renderDeviceCard(device, now, later)
        /\ now' = later
    /\ UNCHANGED device
    /\ UNCHANGED requestVars
    /\ UNCHANGED screenVars

Tick ==
    /\ now + MsPerHour <= T0 + MaxHours * MsPerHour
    /\ now' = now + MsPerHour
    /\ UNCHANGED <<device, view>>
    /\ UNCHANGED requestVars
    /\ UNCHANGED screenVars

(***************************************************************************)
(* The request layer (core/requestsHelper.ts).  Each call is an async      *)
(* function: it runs to its next await in one step and is resumed by the   *)
(* completion of what it awaits.                                           *)
(***************************************************************************)
\* how many calls may be made
MaxCalls == 2

NoUser == "none"
Users == {"u1"}
NoLang == "none"
\* the NotificationsProvider as it is mounted: no callback registered, no
\* listener, no timer; a device screen with an empty list
NoDevices == "none"
NotifIdle ==
    [subscribed |-> FALSE, callback |-> 0, registered |-> 0, delivered |-> 0,
     skipped |-> 0, invoked |-> <<>>, loads |-> 0, inflight |-> 0,
     notification |-> "none", deviceList |-> NoDevices]
\* no screen has set its language yet (active), in the first run of the
\* application (restarted)
NoScreen == [active |-> NoLang, restarted |-> FALSE]
\* the AuthProvider as it is mounted: useState(null), useState(true).  A user
\* is the User object of a sign-in, named by its number (0: null); `current`
\* is the one the identity provider holds, `signIns` counts them.
AuthIdle == [user |-> 0, isLoading |-> TRUE, current |-> 0, signIns |-> 0]
\* the application starts at '/': no segment; the guard's effect is to run;
\* from: the segment the guard's last redirect left, if that brought the
\* router where it is
NavIdle == [segment |-> "", effect |-> TRUE, from |-> "none"]
\* no listener, no timer, the provider's effect has run for no user
SubsIdle == [user |-> 0, listeners |-> 0, timers |-> 0, callback |-> "none"]
\* how many times loadDevices may fetch
MaxLoads == 2
LoadIds == 1 .. MaxLoads
NoLoad == [pc |-> "idle"]
\* no load has settled
NoSettled == [load |-> 0]
\* no device list screen is mounted; the states of one that mounts are
\* useState([]), useState(true), useState(false); loadDevices has not been
\* asked for with a user (asked), no fetch has started, no load has settled;
\* showError has not been called for a load (errors) and shows nothing (dialog)
ScreenIdle ==
    [mounted |-> FALSE, effect |-> FALSE, devices |-> Arr(<<>>), loading |-> TRUE,
     refreshing |-> FALSE, loads |-> [l \in LoadIds |-> NoLoad], asked |-> 0,
     started |-> 0, last |-> NoSettled, errors |-> 0, dialog |-> ""]
\* no screen has set its language, nothing has been delivered
ScreensIdle ==
    /\ lang = NoScreen
    /\ notif = NotifIdle
    /\ auth = AuthIdle
    /\ nav = NavIdle
    /\ subs = SubsIdle
    /\ screen = ScreenIdle
Langs == {"en", "es"}
Scopes == {"", "last"}
CallIds == 1 .. MaxCalls

\* a thrown value; `error instanceof Error ? error.message : 'Unknown error'`
Error(message) == [isError |-> TRUE, message |-> message]
ErrorMessage(e) == IF e.isError THEN e.message ELSE "Unknown error"

NoRequest == [sent |-> FALSE]
NoResponse == [received |-> FALSE]
NoError == [raised |-> FALSE]
NoAlert == [shown |-> FALSE]
NoResult == [kind |-> "pending"]
\* what an operation hands to its caller: a returned value or a rejection
Returned(v) == [kind |-> "returned", value |-> v]
Rejected(e) == [kind |-> "rejected", error |-> e]
Failure(e) == Returned([success |-> FALSE, error |-> ErrorMessage(e)])

Idle ==
    [op |-> "none", pc |-> "idle", user |-> NoUser, userId |-> NoUser, arg |-> <<>>,
     token |-> 0, request |-> NoRequest, response |-> NoResponse,
         responseData |-> Undef, callbackRan |-> FALSE, result |-> NoResult,
         tokenRequest |-> "none", error |-> NoError, alert |-> NoAlert, startedBy |-> "none",
         events |-> 0]

endpoint == "https://us-central1-nettrotter-app-dev.cloudfunctions.net/api/dev/"

Bearer(token) == "Bearer " \o ToString(token)

\* the headers every operation of the layer sends
defaultHeaders(token) ==
    [Accept |-> "application/json", ContentType |-> "application/json",
     Authorization |-> Bearer(token)]

\* mutant: { ...options.headers, ...defaultHeaders }
MergeHeadersDefaultsWin(defaults, own) ==
    [h \in DOMAIN defaults \cup DOMAIN own |-> IF h \in DOMAIN defaults THEN defaults[h] ELSE own[h]]

\* { ...defaultHeaders, ...options.headers }
MergeHeaders(defaults, own) ==
    [h \in DOMAIN defaults \cup DOMAIN own |-> IF h \in DOMAIN own THEN own[h] ELSE defaults[h]]

Fetch(url, method, headers, body) ==
    [sent |-> TRUE, url |-> url, method |-> method, headers |-> headers, body |-> body]

\* the options callers of makeAuthenticatedRequest pass
RequestOptions ==
    {[path |-> "user/u1?action=token", method |-> "PUT", headers |-> <<>>,
      body |-> "phone_token"],
     [path |-> "user/u1", method |-> "GET", headers |-> [Authorization |-> "Basic caller"],
      body |-> ""]}

\* what the server's JSON decodes to
ResponseBodies ==
    {Obj([uid |-> Str("u1"), devices |-> Arr(<<>>)]),
     Obj([status_code |-> Num(200), uid |-> Str("u1")]),
     Obj([status_code |-> Num(400), message |-> Str("")]),
     Obj([status_code |-> Num(400), message |-> Obj([message |-> Str("Bad request")])]),
     Obj([status_code |-> Num(500), message |-> Str("Internal error")]),
     Obj([status_code |-> Num(400), message |-> Str("Bad request")]),
     Obj([status_code |-> Num(400)]),
     Obj([status_code |-> Num(401), message |-> Str("Unauthorized")])}

HttpStatuses == {200, 500}
ResponseOk(status) == 200 <= status /\ status <= 299
Response(status) == [received |-> TRUE, status |-> status, ok |-> ResponseOk(status)]

\* String(v), the conversion `new Error(v)` applies to its message
ToStringJs(v) ==
    CASE v.t = "string" -> v.s
      [] v.t = "number" -> IF "nan" \in DOMAIN v THEN "NaN" ELSE ToString(v.n)
      [] v.t = "boolean" -> IF v.b THEN "true" ELSE "false"
      [] v.t = "object" -> "[object Object]"
      [] v.t = "array" -> IF v.a = <<>> THEN "" ELSE "[array]"
      [] OTHER -> v.t

Started(c, op, userId, arg) ==
    [Idle EXCEPT !.op = op, !.userId = userId, !.arg = arg, !.user = currentUser]

Finish(call, result) == [call EXCEPT !.pc = "done", !.result = result]

\* the call asks the identity provider for a token with getIdToken(true)
AwaitToken(call) == [call EXCEPT !.pc = "token", !.tokenRequest = "forced"]

\* changeLangOnServer up to its first await
StartChangeLang(c) ==
    /\ calls[c].pc = "idle"
    /\ \E itemValue \in Langs, userId \in Users, callback \in BOOLEAN :
        LET call == Started(c, "changeLangOnServer", userId,
                            [lang |-> itemValue, callback |-> callback])
        IN calls' = [calls EXCEPT ![c] =
                IF currentUser = NoUser
                THEN Finish(call, Failure(Error("No authenticated user found")))
                ELSE AwaitToken(call)]
    /\ UNCHANGED <<currentUser, storedLang, emitted>>
    /\ UNCHANGED cardVars
    /\ UNCHANGED screenVars

\* mutant: getUserData without the test of currentUser
StartGetUserDataUnchecked(c) ==
    /\ calls[c].pc = "idle"
    /\ \E userId \in Users, scope \in Scopes :
        calls' = [calls EXCEPT ![c] =
            AwaitToken(Started(c, "getUserData", userId, [scope |-> scope]))]
    /\ UNCHANGED <<currentUser, storedLang, emitted>>
    /\ UNCHANGED cardVars
    /\ UNCHANGED screenVars

\* getUserData up to its first await
StartGetUserData(c) ==
    /\ calls[c].pc = "idle"
    /\ \E userId \in Users, scope \in Scopes :
        LET call == Started(c, "getUserData", userId, [scope |-> scope])
        IN calls' = [calls EXCEPT ![c] =
                IF currentUser = NoUser
                THEN Finish(call, Failure(Error("No authenticated user found")))
                ELSE AwaitToken(call)]
    /\ UNCHANGED <<currentUser, storedLang, emitted>>
    /\ UNCHANGED cardVars
    /\ UNCHANGED screenVars

\* makeAuthenticatedRequest with getCurrentUserToken, up to the first await on
\* the identity provider; without a session the token is null and the call throws
StartMakeAuthenticatedRequest(c) ==
    /\ calls[c].pc = "idle"
    /\ \E options \in RequestOptions :
        LET call == Started(c, "makeAuthenticatedRequest", NoUser, options)
        IN calls' = [calls EXCEPT ![c] =
                IF currentUser = NoUser
                THEN Finish(call, Rejected(Error("No authentication token available")))
                ELSE AwaitToken(call)]
    /\ UNCHANGED <<currentUser, storedLang, emitted>>
    /\ UNCHANGED cardVars
    /\ UNCHANGED screenVars

\* getCurrentUserToken called on its own, up to its await: null without a session
StartGetCurrentUserToken(c) ==
    /\ calls[c].pc = "idle"
    /\ LET call == Started(c, "getCurrentUserToken", NoUser, <<>>)
       IN calls' = [calls EXCEPT ![c] =
                IF currentUser = NoUser
                THEN Finish(call, Returned(Null))
                ELSE AwaitToken(call)]
    /\ UNCHANGED <<currentUser, storedLang, emitted>>
    /\ UNCHANGED cardVars
    /\ UNCHANGED screenVars

UserUrl(userId, scope) ==
    IF scope # "" THEN endpoint \o "user/" \o userId \o "?scope=" \o scope
    ELSE endpoint \o "user/" \o userId

\* the token the identity provider issues for the forced refresh that call c asks
\* for: every forced refresh yields a token of its own
FreshToken(c) == c
\* the token as the string the program holds
TokenString(token) == Str(ToString(token))

\* mutant: concurrent refreshes answered with one token
TokenResolvedShared(c) ==
    /\ calls[c].pc = "token"
    /\ LET held == {calls[d].token : d \in CallIds} \ {0}
           token == IF held = {} THEN FreshToken(c) ELSE CHOOSE t \in held : TRUE
           call == [calls[c] EXCEPT !.token = token]
       IN calls' = [calls EXCEPT ![c] =
            CASE call.op = "changeLangOnServer" -> [call EXCEPT !.pc = "storage"]
              [] call.op = "getCurrentUserToken" -> Finish(call, Returned(TokenString(token)))
              [] call.op = "getUserData" ->
                    [call EXCEPT !.pc = "fetch",
                        !.request = Fetch(UserUrl(call.userId, call.arg.scope), "GET",
                                          defaultHeaders(token), "")]
              [] call.op = "makeAuthenticatedRequest" ->
                    [call EXCEPT !.pc = "fetch",
                        !.request = Fetch(endpoint \o call.arg.path, call.arg.method,
                                          MergeHeaders(defaultHeaders(token), call.arg.headers),
                                          call.arg.body)]]
    /\ UNCHANGED <<currentUser, storedLang, emitted>>
    /\ UNCHANGED cardVars
    /\ UNCHANGED screenVars

\* currentUser.getIdToken(true) resolves with a new token: the call goes on to
\* its next await
TokenResolved(c) ==
    /\ calls[c].pc = "token"
    /\ LET token == FreshToken(c)
           call == [calls[c] EXCEPT !.token = token]
       IN calls' = [calls EXCEPT ![c] =
            CASE call.op = "changeLangOnServer" -> [call EXCEPT !.pc = "storage"]
              [] call.op = "getCurrentUserToken" -> Finish(call, Returned(TokenString(token)))
              [] call.op = "getUserData" ->
                    [call EXCEPT !.pc = "fetch",
                        !.request = Fetch(UserUrl(call.userId, call.arg.scope), "GET",
                                          defaultHeaders(token), "")]
              [] call.op = "makeAuthenticatedRequest" ->
                    [call EXCEPT !.pc = "fetch",
                        !.request = Fetch(endpoint \o call.arg.path, call.arg.method,
                                          MergeHeaders(defaultHeaders(token), call.arg.headers),
                                          call.arg.body)]]
    /\ UNCHANGED <<currentUser, storedLang, emitted>>
    /\ UNCHANGED cardVars
    /\ UNCHANGED screenVars

\* mutant: getCurrentUserToken without its catch block
TokenRejectedPropagates(c) ==
    /\ calls[c].pc = "token"
    /\ LET e == Error("Firebase: Error (auth/network-request-failed).") IN
       calls' = [calls EXCEPT ![c] =
            IF calls[c].op \in {"makeAuthenticatedRequest", "getCurrentUserToken"}
            THEN Finish(calls[c], Rejected(e))
            ELSE Finish(calls[c], Failure(e))]
    /\ UNCHANGED <<currentUser, storedLang, emitted>>
    /\ UNCHANGED cardVars
    /\ UNCHANGED screenVars

\* currentUser.getIdToken(true) rejects
TokenRejected(c) ==
    /\ calls[c].pc = "token"
    /\ LET e == Error("Firebase: Error (auth/network-request-failed).") IN
       calls' = [calls EXCEPT ![c] =
            CASE calls[c].op = "makeAuthenticatedRequest"
                    -> Finish(calls[c], Rejected(Error("No authentication token available")))
              [] calls[c].op = "getCurrentUserToken" -> Finish(calls[c], Returned(Null))
              [] OTHER -> Finish(calls[c], Failure(e))]
    /\ UNCHANGED <<currentUser, storedLang, emitted>>
    /\ UNCHANGED cardVars
    /\ UNCHANGED screenVars

\* mutant: the event emitted as soon as the language is stored
StorageResolvedEmits(c) ==
    /\ calls[c].pc = "storage"
    /\ storedLang' = calls[c].arg.lang
    /\ emitted' = Append(emitted, calls[c].arg.lang)
    /\ LET call == calls[c] IN
       calls' = [calls EXCEPT ![c] =
            [call EXCEPT !.pc = "fetch", !.events = @ + 1,
                !.request = Fetch(endpoint \o "user/" \o call.userId \o "?action=token",
                                  "PUT", defaultHeaders(call.token), call.arg.lang)]]
    /\ UNCHANGED currentUser
    /\ UNCHANGED cardVars
    /\ UNCHANGED screenVars

\* AsyncStorage.setItem('lang', itemValue) resolves: the PUT is sent
StorageResolved(c) ==
    /\ calls[c].pc = "storage"
    /\ storedLang' = calls[c].arg.lang
    /\ LET call == calls[c] IN
       calls' = [calls EXCEPT ![c] =
            [call EXCEPT !.pc = "fetch",
                !.request = Fetch(endpoint \o "user/" \o call.userId \o "?action=token",
                                  "PUT", defaultHeaders(call.token), call.arg.lang)]]
    /\ UNCHANGED <<currentUser, emitted>>
    /\ UNCHANGED cardVars
    /\ UNCHANGED screenVars

\* mutant: a failed write to storage escapes changeLangOnServer
StorageRejectedPropagates(c) ==
    /\ calls[c].pc = "storage"
    /\ calls' = [calls EXCEPT ![c] = Finish(@, Rejected(Error("Failed to write to storage")))]
    /\ UNCHANGED <<currentUser, storedLang, emitted>>
    /\ UNCHANGED cardVars
    /\ UNCHANGED screenVars

\* AsyncStorage.setItem rejects
StorageRejected(c) ==
    /\ calls[c].pc = "storage"
    /\ calls' = [calls EXCEPT ![c] = Finish(@, Failure(Error("Failed to write to storage")))]
    /\ UNCHANGED <<currentUser, storedLang, emitted>>
    /\ UNCHANGED cardVars
    /\ UNCHANGED screenVars

\* fetch rejects: no response
FetchRejected(c) ==
    /\ calls[c].pc = "fetch"
    /\ LET e == Error("Network request failed") IN
       calls' = [calls EXCEPT ![c] =
            IF @.op = "makeAuthenticatedRequest" THEN Finish(@, Rejected(e))
            ELSE Finish(@, Failure(e))]
    /\ UNCHANGED <<currentUser, storedLang, emitted>>
    /\ UNCHANGED cardVars
    /\ UNCHANGED screenVars

\* fetch resolves with a response
FetchResolved(c) ==
    /\ calls[c].pc = "fetch"
    /\ \E status \in HttpStatuses :
        LET call == [calls[c] EXCEPT !.response = Response(status)]
        IN calls' = [calls EXCEPT ![c] =
            IF call.op = "makeAuthenticatedRequest"
            THEN Finish(call, Returned(call.response))
            ELSE IF ~call.response.ok
            THEN Finish(call, Failure(Error("Server responded with status: "
                                            \o ToString(status))))
            ELSE [call EXCEPT !.pc = "json"]]
    /\ UNCHANGED <<currentUser, storedLang, emitted>>
    /\ UNCHANGED cardVars
    /\ UNCHANGED screenVars

\* mutant: a JSON decoding failure escapes the catch block
JsonRejectedPropagates(c) ==
    /\ calls[c].pc = "json"
    /\ calls' = [calls EXCEPT ![c] = Finish(@, Rejected(Error("JSON Parse error")))]
    /\ UNCHANGED <<currentUser, storedLang, emitted>>
    /\ UNCHANGED cardVars
    /\ UNCHANGED screenVars

\* response.json() rejects: the body is no JSON
JsonRejected(c) ==
    /\ calls[c].pc = "json"
    /\ calls' = [calls EXCEPT ![c] = Finish(@, Failure(Error("JSON Parse error")))]
    /\ UNCHANGED <<currentUser, storedLang, emitted>>
    /\ UNCHANGED cardVars
    /\ UNCHANGED screenVars

\* response.json() resolves in changeLangOnServer: the event, the callback, success
LangJsonResolved(c) ==
    /\ calls[c].pc = "json"
    /\ calls[c].op = "changeLangOnServer"
    /\ emitted' = Append(emitted, calls[c].arg.lang)
    /\ calls' = [calls EXCEPT ![c] =
            Finish([@ EXCEPT !.callbackRan = calls[c].arg.callback, !.events = @ + 1],
                   Returned([success |-> TRUE]))]
    /\ UNCHANGED <<currentUser, storedLang>>
    /\ UNCHANGED cardVars
    /\ UNCHANGED screenVars

\* mutant: status_code 400 always reported with the generic text
DataJsonResolvedGeneric(c) ==
    /\ calls[c].pc = "json"
    /\ calls[c].op = "getUserData"
    /\ \E responseData \in ResponseBodies :
        LET call == [calls[c] EXCEPT !.responseData = responseData]
        IN calls' = [calls EXCEPT ![c] =
            IF StrictEq(Get(responseData, "status_code"), Num(400))
            THEN Finish(call, Failure(Error("Server error")))
            ELSE Finish(call, Returned([success |-> TRUE, data |-> responseData]))]
    /\ UNCHANGED <<currentUser, storedLang, emitted>>
    /\ UNCHANGED cardVars
    /\ UNCHANGED screenVars

\* response.json() resolves in getUserData
DataJsonResolved(c) ==
    /\ calls[c].pc = "json"
    /\ calls[c].op = "getUserData"
    /\ \E responseData \in ResponseBodies :
        LET call == [calls[c] EXCEPT !.responseData = responseData]
        IN calls' = [calls EXCEPT ![c] =
            IF StrictEq(Get(responseData, "status_code"), Num(400))
            THEN Finish(call, Failure(Error(ToStringJs(
                    Or(Get(responseData, "message"), Str("Server error"))))))
            ELSE Finish(call, Returned([success |-> TRUE, data |-> responseData]))]
    /\ UNCHANGED <<currentUser, storedLang, emitted>>
    /\ UNCHANGED cardVars
    /\ UNCHANGED screenVars

\* the identity provider's session starts and ends
SignIn ==
    /\ currentUser = NoUser
    /\ currentUser' \in Users
    /\ UNCHANGED <<calls, storedLang, emitted>>
    /\ UNCHANGED cardVars
    /\ UNCHANGED screenVars

SignOut ==
    /\ currentUser # NoUser
    /\ currentUser' = NoUser
    /\ UNCHANGED <<calls, storedLang, emitted>>
    /\ UNCHANGED cardVars
    /\ UNCHANGED screenVars

(***************************************************************************)
(* The login screen (app/(auth)/login.tsx) and the error dialogs of        *)
(* contexts/ErrorContext.tsx.  A run of handleLogin is a call like the     *)
(* calls of the request layer; it talks to the server directly.            *)
(***************************************************************************)
\* the errors that reach handleFirebaseAuthError: objects with an optional
\* code, status and message
AuthError(code, status, message) == [raised |-> TRUE, code |-> code, status |-> status,
                                     message |-> message]
FirebaseError(code) == AuthError(Str(code), Undef, Str("Firebase: Error (" \o code \o ")."))
PlainError(message) == AuthError(Undef, Undef, Str(message))
SignInErrorCodes == {"auth/wrong-password", "auth/network-request-failed"}
AuthErrors ==
    {FirebaseError(code) : code \in SignInErrorCodes}
        \cup {PlainError("Network request failed"),
              AuthError(Undef, Num(500), Str("Internal error")),
              AuthError(Undef, Undef, Undef)}

\* Alert.alert(title, message, buttons)
Alert(title, message, buttons) ==
    [shown |-> TRUE, title |-> title, message |-> message, buttons |-> buttons]

showError(message) == Alert("Error", message, {"OK"})

getFirebaseErrorMessage(errorCode) ==
    CASE errorCode = "auth/wrong-password" -> "Contraseña incorrecta"
      [] errorCode = "auth/network-request-failed" -> "Error de conexión. Verifica tu internet"
      [] OTHER -> "Ocurrió un error inesperado. Intenta nuevamente"

\* the dialog handleFirebaseAuthError(error, retryCallback) shows;
\* retryCallback tells whether a callback was passed
handleFirebaseAuthError(error, retryCallback) ==
    LET errorMessage ==
            IF Truthy(error.code) THEN getFirebaseErrorMessage(error.code.s)
            ELSE IF Truthy(error.message) THEN error.message.s
            ELSE "Error de autenticación. Intenta nuevamente"
    IN  IF retryCallback
            /\ (StrictEq(error.code, Str("auth/network-request-failed"))
                \/ StrictEq(error.status, Num(500)))
        THEN Alert("Error de Conexión", errorMessage \o "\n\n¿Quieres intentar nuevamente?",
                   {"Cancelar", "Reintentar"})
        ELSE showError(errorMessage)

\* what the server answers to the login's GET user/{uid}?scope=devices
LoginBodies ==
    {Obj([uid |-> Str("u1"), devices |-> Arr(<<>>)]),
     Obj([uid |-> Str("u1")]),
     Obj([status_code |-> Num(400), message |-> Obj([message |-> Str("Bad request")])]),
     Obj([status_code |-> Num(400)])}

\* the token getIdToken() hands to call c without a forced refresh: whatever
\* the identity provider holds for the session, not a token asked for by c
CachedToken(c) == 0 - c

\* the catch block of handleLogin: the error goes to the dialog, with
\* handleLogin as the retry callback
LoginCaught(call, error) ==
    [call EXCEPT !.pc = "done", !.error = error,
                 !.alert = handleFirebaseAuthError(error, TRUE)]

\* handleLogin from its start to its first await; startedBy tells the user
\* action that called it
LoginStarted(c, startedBy) ==
    [Started(c, "handleLogin", NoUser, <<>>) EXCEPT !.pc = "signIn", !.startedBy = startedBy]

\* the form is submitted (the login button, or the keyboard's done key):
\* handleLogin returns at once when validateInputs fails
SubmitLogin(c) ==
    /\ calls[c].pc = "idle"
    /\ \E valid \in BOOLEAN :
        calls' = [calls EXCEPT ![c] =
            IF valid THEN LoginStarted(c, "submit")
            ELSE [LoginStarted(c, "submit") EXCEPT !.pc = "done"]]
    /\ UNCHANGED <<currentUser, storedLang, emitted>>
    /\ UNCHANGED cardVars
    /\ UNCHANGED screenVars

\* signInWithEmailAndPassword resolves: the session starts, and handleLogin
\* asks for the token without forcing a refresh
SignInResolved(c) ==
    /\ calls[c].pc = "signIn"
    /\ \E uid \in Users :
        /\ currentUser' = uid
        /\ calls' = [calls EXCEPT ![c] =
                [@ EXCEPT !.pc = "idToken", !.user = uid, !.userId = uid,
                          !.tokenRequest = "unforced"]]
    /\ UNCHANGED <<storedLang, emitted>>
    /\ UNCHANGED cardVars
    /\ UNCHANGED screenVars

\* mutant: a login that failed for the network starts again by itself
SignInRejectedAutoRetry(c) ==
    /\ calls[c].pc = "signIn"
    /\ \E code \in SignInErrorCodes :
        calls' = [calls EXCEPT ![c] =
            IF code = "auth/network-request-failed"
            THEN [LoginStarted(c, "none") EXCEPT !.error = FirebaseError(code)]
            ELSE LoginCaught(@, FirebaseError(code))]
    /\ UNCHANGED <<currentUser, storedLang, emitted>>
    /\ UNCHANGED cardVars
    /\ UNCHANGED screenVars

\* signInWithEmailAndPassword rejects
SignInRejected(c) ==
    /\ calls[c].pc = "signIn"
    /\ \E code \in SignInErrorCodes :
        calls' = [calls EXCEPT ![c] = LoginCaught(@, FirebaseError(code))]
    /\ UNCHANGED <<currentUser, storedLang, emitted>>
    /\ UNCHANGED cardVars
    /\ UNCHANGED screenVars

\* firebaseUser.getIdToken() resolves: the GET is sent
IdTokenResolved(c) ==
    /\ calls[c].pc = "idToken"
    /\ LET token == CachedToken(c)
           call == calls[c]
       IN calls' = [calls EXCEPT ![c] =
            [call EXCEPT !.pc = "loginFetch", !.token = token,
                !.request = Fetch(UserUrl(call.userId, "devices"), "GET",
                                  defaultHeaders(token), "")]]
    /\ UNCHANGED <<currentUser, storedLang, emitted>>
    /\ UNCHANGED cardVars
    /\ UNCHANGED screenVars

IdTokenRejected(c) ==
    /\ calls[c].pc = "idToken"
    /\ calls' = [calls EXCEPT ![c] =
            LoginCaught(@, FirebaseError("auth/network-request-failed"))]
    /\ UNCHANGED <<currentUser, storedLang, emitted>>
    /\ UNCHANGED cardVars
    /\ UNCHANGED screenVars

LoginFetchRejected(c) ==
    /\ calls[c].pc = "loginFetch"
    /\ calls' = [calls EXCEPT ![c] = LoginCaught(@, PlainError("Network request failed"))]
    /\ UNCHANGED <<currentUser, storedLang, emitted>>
    /\ UNCHANGED cardVars
    /\ UNCHANGED screenVars

\* the response arrives: a status that is not OK is thrown as a plain Error
LoginFetchResolved(c) ==
    /\ calls[c].pc = "loginFetch"
    /\ \E status \in HttpStatuses :
        LET call == [calls[c] EXCEPT !.response = Response(status)]
        IN calls' = [calls EXCEPT ![c] =
            IF ~call.response.ok
            THEN LoginCaught(call, PlainError("HTTP " \o ToString(status) \o ": "))
            ELSE [call EXCEPT !.pc = "loginJson"]]
    /\ UNCHANGED <<currentUser, storedLang, emitted>>
    /\ UNCHANGED cardVars
    /\ UNCHANGED screenVars

LoginJsonRejected(c) ==
    /\ calls[c].pc = "loginJson"
    /\ calls' = [calls EXCEPT ![c] = LoginCaught(@, PlainError("JSON Parse error"))]
    /\ UNCHANGED <<currentUser, storedLang, emitted>>
    /\ UNCHANGED cardVars
    /\ UNCHANGED screenVars

\* the body is decoded: a status_code 400 goes to the dialog with status 400,
\* anything else to the language update
LoginJsonResolved(c) ==
    /\ calls[c].pc = "loginJson"
    /\ \E responseJson \in LoginBodies :
        LET call == [calls[c] EXCEPT !.responseData = responseJson]
            message == Or(OptGet(Get(responseJson, "message"), "message"),
                          Str("Server error. Please try again later."))
        IN calls' = [calls EXCEPT ![c] =
            IF StrictEq(Get(responseJson, "status_code"), Num(400))
            THEN LoginCaught(call, AuthError(Undef, Num(400), message))
            ELSE [call EXCEPT !.pc = "loginLang"]]
    /\ UNCHANGED <<currentUser, storedLang, emitted>>
    /\ UNCHANGED cardVars
    /\ UNCHANGED screenVars

\* s.substring(0, 2), on the strings the model stores
Substring02(s) == IF s = "fil" THEN "fi" ELSE s

\* the language of the login screen, as its setupLanguage sets it: the first
\* two letters of what is stored, and "en" when nothing is
LoginLang == IF storedLang = NoLang THEN "en" ELSE Substring02(storedLang)

\* handleChangeLangOnServer(lang, uid) has settled, whatever its outcome: it
\* failed before the write to storage, after it, or it succeeded.  Then
\* responseJson.devices.length is read, a TypeError when there are no devices
LoginLangSettled(c) ==
    /\ calls[c].pc = "loginLang"
    /\ \E outcome \in {"failed", "stored", "success"} :
        /\ storedLang' = IF outcome = "failed" THEN storedLang ELSE LoginLang
        /\ emitted' = IF outcome = "success" THEN Append(emitted, LoginLang) ELSE emitted
    /\ calls' = [calls EXCEPT ![c] =
            IF Get(calls[c].responseData, "devices") = Undef
            THEN LoginCaught(@, PlainError(
                    "Cannot read property 'length' of undefined"))
            ELSE [@ EXCEPT !.pc = "done"]]
    /\ UNCHANGED currentUser
    /\ UNCHANGED cardVars
    /\ UNCHANGED screenVars

\* another screen reports an error through the context, with or without a
\* retry callback of its own
ReportAuthError(c) ==
    /\ calls[c].pc = "idle"
    /\ \E error \in AuthErrors, retryCallback \in BOOLEAN :
        calls' = [calls EXCEPT ![c] =
            [Started(c, "handleFirebaseAuthError", NoUser,
                     [retryCallback |-> retryCallback])
                EXCEPT !.pc = "done", !.error = error,
                       !.alert = handleFirebaseAuthError(error, retryCallback)]]
    /\ UNCHANGED <<currentUser, storedLang, emitted>>
    /\ UNCHANGED cardVars
    /\ UNCHANGED screenVars

\* the user closes a dialog with OK or Cancelar
DismissAlert(c) ==
    /\ calls[c].alert.shown
    /\ calls' = [calls EXCEPT ![c] = [@ EXCEPT !.alert = NoAlert]]
    /\ UNCHANGED <<currentUser, storedLang, emitted>>
    /\ UNCHANGED cardVars
    /\ UNCHANGED screenVars

\* the user presses Reintentar: the dialog closes and the callback runs, which
\* for a login is handleLogin again
PressRetry(c) ==
    /\ calls[c].alert.shown
    /\ "Reintentar" \in calls[c].alert.buttons
    /\ IF calls[c].op = "handleLogin"
       THEN \E d \in CallIds, valid \in BOOLEAN :
            /\ calls[d].pc = "idle"
            /\ calls' = [calls EXCEPT
                    ![c] = [@ EXCEPT !.alert = NoAlert],
                    ![d] = IF valid THEN LoginStarted(d, "retry")
                           ELSE [LoginStarted(d, "retry") EXCEPT !.pc = "done"]]
       ELSE calls' = [calls EXCEPT ![c] = [@ EXCEPT !.alert = NoAlert]]
    /\ UNCHANGED <<currentUser, storedLang, emitted>>
    /\ UNCHANGED cardVars
    /\ UNCHANGED screenVars

RequestInit ==
    /\ currentUser = NoUser
    /\ calls = [c \in CallIds |-> Idle]
    /\ storedLang \in Langs \cup {NoLang}
    /\ emitted = <<>>

(***************************************************************************)
(* Two specifications: the cards of the device list, and the request layer *)
(***************************************************************************)
Init ==
    /\ CardInit
    /\ currentUser = NoUser
    /\ calls = [c \in CallIds |-> Idle]
    /\ storedLang = NoLang
    /\ emitted = <<>>
    /\ ScreensIdle

Next == Render \/ Tick

Spec == Init /\ [][Next]_vars

RequestsInit ==
    /\ RequestInit
    /\ ScreensIdle
    /\ device = Obj(<<>>)
    /\ now = T0
    /\ view = NoView

RequestsNext ==
    \E c \in CallIds :
        \/ StartChangeLang(c)
        \/ StartGetUserData(c)
        \/ StartMakeAuthenticatedRequest(c)
        \/ StartGetCurrentUserToken(c)
        \/ TokenResolved(c)
        \/ TokenRejected(c)
        \/ StorageResolved(c)
        \/ StorageRejected(c)
        \/ FetchRejected(c)
        \/ FetchResolved(c)
        \/ JsonRejected(c)
        \/ LangJsonResolved(c)
        \/ DataJsonResolved(c)
        \/ SignIn
        \/ SignOut

SpecRequests == RequestsInit /\ [][RequestsNext]_vars

\* getUserData alone, any number of calls in flight
UserDataNext ==
    \E c \in CallIds :
        \/ StartGetUserData(c)
        \/ TokenResolved(c)
        \/ TokenRejected(c)
        \/ FetchRejected(c)
        \/ FetchResolved(c)
        \/ JsonRejected(c)
        \/ DataJsonResolved(c)
        \/ SignIn
        \/ SignOut

SpecUserData == RequestsInit /\ [][UserDataNext]_vars

\* the header objects and the options an importer of makeAuthenticatedRequest
\* may pass: no headers, a default overridden, a header of the caller's own
CallerHeaders ==
    {<<>>,
     [Authorization |-> "Basic caller"],
     [ContentType |-> "text/plain"],
     [XRequestId |-> "r1"],
     [Accept |-> "text/html", XRequestId |-> "r1"]}
CallerOptions ==
    {[path |-> "user/u1?action=token", method |-> m.method, headers |-> h, body |-> m.body] :
        m \in {[method |-> "GET", body |-> ""], [method |-> "PUT", body |-> "phone_token"]},
        h \in CallerHeaders}

\* makeAuthenticatedRequest with any of these options, up to the first await
CallMakeAuthenticatedRequest(c) ==
    /\ calls[c].pc = "idle"
    /\ \E options \in CallerOptions :
        LET call == Started(c, "makeAuthenticatedRequest", NoUser, options)
        IN calls' = [calls EXCEPT ![c] =
                IF currentUser = NoUser
                THEN Finish(call, Rejected(Error("No authentication token available")))
                ELSE AwaitToken(call)]
    /\ UNCHANGED <<currentUser, storedLang, emitted>>
    /\ UNCHANGED cardVars
    /\ UNCHANGED screenVars

HeadersNext ==
    \E c \in CallIds :
        \/ CallMakeAuthenticatedRequest(c)
        \/ TokenResolved(c)
        \/ FetchResolved(c)
        \/ SignIn
        \/ SignOut

SpecHeaders == RequestsInit /\ [][HeadersNext]_vars

\* getCurrentUserToken alone
TokenNext ==
    \E c \in CallIds :
        \/ StartGetCurrentUserToken(c)
        \/ TokenResolved(c)
        \/ TokenRejected(c)
        \/ SignIn
        \/ SignOut

SpecToken == RequestsInit /\ [][TokenNext]_vars

(***************************************************************************)
(* The language of the screens: setupLanguage of the device list           *)
(* (app/(private)/device.tsx) and of the login (app/(auth)/login.tsx), and *)
(* a restart of the application, which keeps AsyncStorage only.            *)
(***************************************************************************)
\* the keys of `translations`
SupportedLangs == {"en", "it", "es", "fr", "sv", "fi"}
\* what an earlier run may have left under 'lang'
StoredLangs == {NoLang, "it", "fil"}
\* Localization.getLocales()[0].languageCode
LocaleCodes == {Str("es"), Str("fil"), Null}

\* translations[langCode] ? langCode : 'en'
SupportedOrEn(langCode) == IF langCode \in SupportedLangs THEN langCode ELSE "en"

\* mutant: setupLanguage that does not look at what is stored
SetupLanguageDefault ==
    /\ lang.active = NoLang
    /\ lang' = [lang EXCEPT !.active = "en"]
    /\ UNCHANGED <<storedLang, notif>>
    /\ UNCHANGED appVars
    /\ UNCHANGED <<currentUser, calls, emitted>>
    /\ UNCHANGED cardVars

\* setupLanguage of the device list, run when the screen mounts: the stored
\* language when there is one, else the language of the device, which is then
\* stored.  The write is local and is taken to land at once.
SetupLanguage ==
    /\ lang.active = NoLang
    /\ IF storedLang # NoLang
       THEN /\ lang' = [lang EXCEPT !.active = SupportedOrEn(Substring02(storedLang))]
            /\ UNCHANGED storedLang
       ELSE \E languageCode \in LocaleCodes :
            LET langCode == IF IsNullish(languageCode) THEN NoLang
                            ELSE Substring02(languageCode.s)
            IN /\ lang' = [lang EXCEPT !.active = SupportedOrEn(langCode)]
               /\ storedLang' = IF langCode = NoLang THEN "en" ELSE langCode
    /\ UNCHANGED notif
    /\ UNCHANGED appVars
    /\ UNCHANGED <<currentUser, calls, emitted>>
    /\ UNCHANGED cardVars

\* setupLanguage of the login screen: the first two letters of what is stored,
\* unchecked; else English, and the language of the device is stored
LoginSetupLanguage ==
    /\ lang.active = NoLang
    /\ IF storedLang # NoLang
       THEN /\ lang' = [lang EXCEPT !.active = Substring02(storedLang)]
            /\ UNCHANGED storedLang
       ELSE \E languageCode \in LocaleCodes :
            /\ lang' = [lang EXCEPT !.active = "en"]
            /\ storedLang' = IF IsNullish(languageCode) THEN "en" ELSE languageCode.s
    /\ UNCHANGED notif
    /\ UNCHANGED appVars
    /\ UNCHANGED <<currentUser, calls, emitted>>
    /\ UNCHANGED cardVars

\* the call was cut off by the end of the process
Aborted == [kind |-> "aborted"]

\* the application is closed and opened again: the calls in flight never
\* complete, the screens lose their state, AsyncStorage stays
Restart ==
    /\ ~lang.restarted
    /\ lang' = [active |-> NoLang, restarted |-> TRUE]
    /\ calls' = [c \in CallIds |->
            IF calls[c].pc \in {"idle", "done"} THEN calls[c]
            ELSE Finish(calls[c], Aborted)]
    /\ UNCHANGED <<currentUser, storedLang, emitted, notif>>
    /\ UNCHANGED appVars
    /\ UNCHANGED cardVars

\* whatever an earlier run stored, then changes of language, one restart, and
\* the screens that set their language up
RoundTripInit ==
    /\ currentUser = NoUser
    /\ calls = [c \in CallIds |-> Idle]
    /\ storedLang \in StoredLangs
    /\ emitted = <<>>
    /\ ScreensIdle
    /\ device = Obj(<<>>)
    /\ now = T0
    /\ view = NoView

RoundTripNext ==
    \/ \E c \in CallIds :
        \/ ~lang.restarted /\ StartChangeLang(c)
        \/ TokenResolved(c)
        \/ TokenRejected(c)
        \/ StorageResolved(c)
        \/ StorageRejected(c)
        \/ FetchRejected(c)
        \/ FetchResolved(c)
        \/ JsonRejected(c)
        \/ LangJsonResolved(c)
    \/ SignIn
    \/ SignOut
    \/ Restart
    \/ SetupLanguage
    \/ LoginSetupLanguage

SpecRoundTrip == RoundTripInit /\ [][RoundTripNext]_vars

(***************************************************************************)
(* The NotificationsProvider (contexts/AuthContext.tsx): the refresh       *)
(* callback a screen registers, the two notification listeners and the     *)
(* polling timer, and the loads of the device list the callback starts.    *)
(***************************************************************************)
MaxEvents == 3
MaxRegistrations == 2
\* the device lists a load may bring
DeviceLists == {"one device", "two devices"}
Notifications == {"alarm"}

\* mutant: refreshDevices that does nothing while a load is in flight
refreshDevicesDebounced(n) ==
    IF n.callback = 0 THEN [n EXCEPT !.skipped = @ + 1]
    ELSE IF n.inflight > 0 THEN n
    ELSE [n EXCEPT !.invoked = Append(@, n.callback), !.loads = @ + 1, !.inflight = @ + 1]

\* refreshDevices(): the registered callback is called, if there is one; the
\* callback of the device list calls loadDevices, which calls getUserData
refreshDevices(n) ==
    IF n.callback = 0 THEN [n EXCEPT !.skipped = @ + 1]
    ELSE [n EXCEPT !.invoked = Append(@, n.callback), !.loads = @ + 1, !.inflight = @ + 1]

\* the effect of the provider on [user]: with a user the listeners are added
\* and the timer is set; its cleanup removes them
ListenersFollowUser ==
    /\ notif.subscribed # (currentUser # NoUser)
    /\ notif' = [notif EXCEPT !.subscribed = (currentUser # NoUser)]
    /\ UNCHANGED lang
    /\ UNCHANGED appVars
    /\ UNCHANGED requestVars
    /\ UNCHANGED cardVars

\* the effect of the device list on [user]: loadDevices() and
\* setRefreshCallback with a new closure
RegisterCallback ==
    /\ currentUser # NoUser
    /\ notif.registered < MaxRegistrations
    /\ notif' = [notif EXCEPT !.registered = @ + 1, !.callback = notif.registered + 1,
                              !.inflight = @ + 1]
    /\ UNCHANGED lang
    /\ UNCHANGED appVars
    /\ UNCHANGED requestVars
    /\ UNCHANGED cardVars

\* handleNotificationReceived: a notification arrives with the application in
\* the foreground
NotificationReceived ==
    /\ notif.subscribed
    /\ notif.delivered < MaxEvents
    /\ \E notification \in Notifications :
        notif' = refreshDevices([notif EXCEPT !.delivered = @ + 1,
                                             !.notification = notification])
    /\ UNCHANGED lang
    /\ UNCHANGED appVars
    /\ UNCHANGED requestVars
    /\ UNCHANGED cardVars

\* handleNotificationResponse: the user taps a notification
NotificationTapped ==
    /\ notif.subscribed
    /\ notif.delivered < MaxEvents
    /\ notif' = refreshDevices([notif EXCEPT !.delivered = @ + 1])
    /\ UNCHANGED lang
    /\ UNCHANGED appVars
    /\ UNCHANGED requestVars
    /\ UNCHANGED cardVars

\* the timer fires, every five minutes
PollTick ==
    /\ notif.subscribed
    /\ notif.delivered < MaxEvents
    /\ notif' = refreshDevices([notif EXCEPT !.delivered = @ + 1])
    /\ UNCHANGED lang
    /\ UNCHANGED appVars
    /\ UNCHANGED requestVars
    /\ UNCHANGED cardVars

\* a loadDevices settles: setDevices with what getUserData brought, or the
\* error is shown and the list stays
LoadSettled ==
    /\ notif.inflight > 0
    /\ \E devices \in DeviceLists \cup {notif.deviceList} :
        notif' = [notif EXCEPT !.inflight = @ - 1, !.deviceList = devices]
    /\ UNCHANGED lang
    /\ UNCHANGED appVars
    /\ UNCHANGED requestVars
    /\ UNCHANGED cardVars

NotificationsInit ==
    /\ currentUser = NoUser
    /\ calls = [c \in CallIds |-> Idle]
    /\ storedLang = NoLang
    /\ emitted = <<>>
    /\ ScreensIdle
    /\ device = Obj(<<>>)
    /\ now = T0
    /\ view = NoView

NotificationsNext ==
    \/ ListenersFollowUser
    \/ RegisterCallback
    \/ NotificationReceived
    \/ NotificationTapped
    \/ PollTick
    \/ LoadSettled
    \/ SignIn
    \/ SignOut

SpecNotifications == NotificationsInit /\ [][NotificationsNext]_vars

(***************************************************************************)
(* The application shell (app/_layout.tsx): the AuthProvider, the route    *)
(* guard of RootLayoutNav and the effect of the NotificationsProvider that *)
(* adds the listeners and sets the timer.  A state update and the effects  *)
(* that follow it are separate steps: React runs effects after the render. *)
(***************************************************************************)
MaxSignIns == 3
Routes == {"(auth)", "(private)", "other"}
\* what the application shell leaves alone
shellFrame == <<device, now, view, calls, storedLang, emitted, lang, notif>>

\* signInWithEmailAndPassword resolves: the identity provider holds a new User
UserSignsIn ==
    /\ currentUser = NoUser
    /\ auth.signIns < MaxSignIns
    /\ currentUser' \in Users
    /\ auth' = [auth EXCEPT !.current = auth.signIns + 1, !.signIns = @ + 1]
    /\ UNCHANGED <<nav, subs, screen>>
    /\ UNCHANGED shellFrame

\* signOut(auth) resolves
UserSignsOut ==
    /\ currentUser # NoUser
    /\ currentUser' = NoUser
    /\ auth' = [auth EXCEPT !.current = 0]
    /\ UNCHANGED <<nav, subs, screen>>
    /\ UNCHANGED shellFrame

\* the callback of onAuthStateChanged: setUser(user); setIsLoading(false).
\* It is called once at the start and then after every change; the render
\* that follows shows the last user set.  isAuthenticated and isLoading are
\* dependencies of the guard's effect.
AuthStateChanged ==
    /\ auth.isLoading \/ auth.user # auth.current
    /\ auth' = [auth EXCEPT !.user = auth.current, !.isLoading = FALSE]
    /\ screen' = [screen EXCEPT !.effect = @ \/ (screen.mounted /\ auth.user # auth.current)]
    /\ nav' = [nav EXCEPT !.effect =
                    \/ @
                    \/ auth.isLoading
                    \/ (auth.user # 0) # (auth.current # 0)]
    /\ UNCHANGED <<currentUser, subs>>
    /\ UNCHANGED shellFrame

isAuthenticated == auth.user # 0

\* mutant: a guard that lets an unauthenticated user stay on a private route
GuardedPrivateOpen(isLoading, authenticated, segment) ==
    IF isLoading THEN segment
    ELSE IF segment = "" THEN (IF authenticated THEN "(private)" ELSE "(auth)")
    ELSE IF authenticated /\ segment = "(auth)" THEN "(private)"
    ELSE IF ~authenticated /\ segment # "(auth)" /\ segment # "(private)" THEN "(auth)"
    ELSE segment

\* where the effect of RootLayoutNav sends the router, or the segment itself
\* when it issues no redirect
Guarded(isLoading, authenticated, segment) ==
    IF isLoading THEN segment
    ELSE IF segment = "" THEN (IF authenticated THEN "(private)" ELSE "(auth)")
    ELSE IF authenticated /\ segment = "(auth)" THEN "(private)"
    ELSE IF ~authenticated /\ segment = "(private)" THEN "(auth)"
    ELSE IF ~authenticated /\ segment # "(auth)" /\ segment # "(private)" THEN "(auth)"
    ELSE segment

\* the effect of RootLayoutNav on [isAuthenticated, segments, isLoading];
\* router.replace changes the segments, which runs the effect again
RouteGuard ==
    /\ nav.effect
    /\ LET target == Guarded(auth.isLoading, isAuthenticated, nav.segment)
       IN nav' = [segment |-> target, effect |-> target # nav.segment,
                  from |-> IF target # nav.segment THEN nav.segment ELSE nav.from]
    /\ UNCHANGED <<currentUser, auth, subs, screen>>
    /\ UNCHANGED shellFrame

\* a screen navigates (router.push, router.replace, router.back), once the
\* Stack is rendered
Navigate ==
    /\ ~auth.isLoading
    /\ \E segment \in Routes \ {nav.segment} :
        nav' = [segment |-> segment, effect |-> TRUE, from |-> "none"]
    /\ UNCHANGED <<currentUser, auth, subs, screen>>
    /\ UNCHANGED shellFrame

\* mutant: the effect of the provider without its cleanup
ProviderEffectNoCleanup ==
    /\ subs.user # auth.user
    /\ LET set == IF auth.user # 0
                  THEN [subs EXCEPT !.listeners = @ + 2, !.timers = @ + 1]
                  ELSE subs
       IN subs' = [set EXCEPT !.user = auth.user]
    /\ UNCHANGED <<currentUser, auth, nav, screen>>
    /\ UNCHANGED shellFrame

\* the effect of the NotificationsProvider on [user]: the cleanup of the run
\* before removes its two listeners and clears its timer, then with a user two
\* listeners are added and the timer is set
ProviderEffect ==
    /\ subs.user # auth.user
    /\ LET cleaned == IF subs.user # 0
                      THEN [subs EXCEPT !.listeners = @ - 2, !.timers = @ - 1]
                      ELSE subs
           set == IF auth.user # 0
                  THEN [cleaned EXCEPT !.listeners = @ + 2, !.timers = @ + 1]
                  ELSE cleaned
       IN subs' = [set EXCEPT !.user = auth.user]
    /\ UNCHANGED <<currentUser, auth, nav, screen>>
    /\ UNCHANGED shellFrame

(***************************************************************************)
(* The device list screen (app/(private)/device.tsx): its effects, the     *)
(* pull-to-refresh and loadDevices.  A load fetches with getUserData, whose *)
(* steps are modelled above; here it is seen from its caller, as the       *)
(* result its promise settles with.                                        *)
(***************************************************************************)
\* the devices the server reports to the request of load l
Snapshot(l) == Arr(<<Num(l)>>)
\* what the promise of getUserData(user.uid, 'last') can settle with
UserDataResults(l) ==
    {Returned([success |-> TRUE, data |-> Obj([devices |-> Snapshot(l)])]),
     Returned([success |-> TRUE, data |-> Obj(<<>>)]),
     Returned([success |-> TRUE, data |-> Num(0)]),
     Failure(Error("No authenticated user found")),
     Rejected(Error("Network request failed"))}

\* loadDevices is called and its user is set
Asked(scr) == [scr EXCEPT !.asked = @ + 1]

\* mutant: loadDevices that does not fetch while another load is in flight
StartLoadGuarded(scr, by, orphan) ==
    IF \E l \in LoadIds : scr.loads[l].pc = "fetching" THEN scr
    ELSE [scr EXCEPT !.started = @ + 1,
                !.loads[scr.started + 1] = [pc |-> "fetching", by |-> by, orphan |-> orphan]]

\* loadDevices up to its await, with a user: the fetch is in flight.  by: what
\* called it; orphan: the screen that called it is no longer mounted
StartLoad(scr, by, orphan) ==
    [scr EXCEPT !.started = @ + 1,
                !.loads[scr.started + 1] = [pc |-> "fetching", by |-> by, orphan |-> orphan]]

\* the router shows the private group: the device list mounts
MountDeviceScreen ==
    /\ ~screen.mounted
    /\ ~auth.isLoading
    /\ nav.segment = "(private)"
    /\ screen' = [screen EXCEPT !.mounted = TRUE, !.effect = TRUE]
    /\ UNCHANGED <<currentUser, auth, nav, subs>>
    /\ UNCHANGED shellFrame

\* the router leaves the private group: the screen unmounts.  Its states are
\* gone, its fetches go on, and the provider keeps the callback it registered.
UnmountDeviceScreen ==
    /\ screen.mounted
    /\ nav.segment # "(private)"
    /\ screen' = [ScreenIdle EXCEPT
            !.loads = [l \in LoadIds |->
                IF screen.loads[l].pc = "fetching"
                THEN [screen.loads[l] EXCEPT !.orphan = TRUE]
                ELSE screen.loads[l]],
            !.asked = screen.asked,
            !.started = screen.started,
            !.errors = screen.errors,
            !.dialog = screen.dialog]
    /\ subs' = [subs EXCEPT !.callback = IF @ = "live" THEN "stale" ELSE @]
    /\ UNCHANGED <<currentUser, auth, nav>>
    /\ UNCHANGED shellFrame

\* the effect of the screen on [user, setRefreshCallback], run after the
\* mount, after a change of user and after a render of the provider: with a
\* user, loadDevices() and setRefreshCallback(() => loadDevices())
ScreenEffect ==
    /\ screen.mounted
    /\ screen.effect
    /\ IF auth.user # 0
       THEN /\ screen.started < MaxLoads
            /\ screen' = [StartLoad(Asked(screen), "effect", FALSE) EXCEPT !.effect = FALSE]
            /\ subs' = [subs EXCEPT !.callback = "live"]
       ELSE /\ screen' = [screen EXCEPT !.effect = FALSE]
            /\ UNCHANGED subs
    /\ UNCHANGED <<currentUser, auth, nav>>
    /\ UNCHANGED shellFrame

\* useFocusEffect: the screen comes into focus with a user
ScreenFocused ==
    /\ screen.mounted
    /\ auth.user # 0
    /\ screen.started < MaxLoads
    /\ screen' = StartLoad(Asked(screen), "focus", FALSE)
    /\ UNCHANGED <<currentUser, auth, nav, subs>>
    /\ UNCHANGED shellFrame

\* onRefresh, the pull-to-refresh: setRefreshing(true); loadDevices(), which
\* returns at once when the screen has no user
PullToRefresh ==
    /\ screen.mounted
    /\ IF auth.user # 0
       THEN /\ screen.started < MaxLoads
            /\ screen' = StartLoad(Asked([screen EXCEPT !.refreshing = TRUE]), "pull", FALSE)
       ELSE /\ ~screen.refreshing
            /\ screen' = [screen EXCEPT !.refreshing = TRUE]
    /\ UNCHANGED <<currentUser, auth, nav, subs>>
    /\ UNCHANGED shellFrame

RefreshEvents == {"notification", "tick"}

\* a listener or the timer of the provider calls refreshDevices, which calls
\* the callback registered: loadDevices of the screen that registered it, whose
\* user was set.  A notification received is also set as a state of the
\* provider, whose render hands the screen a new setRefreshCallback.
RefreshEvent(by) ==
    /\ IF by = "tick" THEN subs.timers > 0 ELSE subs.listeners > 0
    /\ subs.callback # "none"
    /\ screen.started < MaxLoads
    /\ screen' = [StartLoad(Asked(screen), by, subs.callback = "stale") EXCEPT
                        !.effect = @ \/ (screen.mounted /\ by = "notification")]
    /\ UNCHANGED <<currentUser, auth, nav, subs>>
    /\ UNCHANGED shellFrame

\* result.error || 'Error loading devices', error.message || 'Error loading devices'
LoadErrorMessage(message) == IF message = "" THEN "Error loading devices" ELSE message

\* result.success && result.data
LoadOk(result) ==
    /\ result.kind = "returned"
    /\ result.value.success
    /\ Truthy(result.value.data)

\* what a load that is not ok hands to showError
LoadError(result) ==
    LoadErrorMessage(IF result.kind = "rejected" THEN ErrorMessage(result.error)
                     ELSE IF result.value.success THEN ""
                     ELSE result.value.error)

\* result.data.devices || []
LoadedDevices(result) == Or(Get(result.value.data, "devices"), Arr(<<>>))

\* mutant: loadDevices that empties the list when it fails
SettleClearing(scr, l, result) ==
    LET orphan == scr.loads[l].orphan
        settled == [scr EXCEPT
                        !.loads[l] = [pc |-> "done", orphan |-> orphan, wrote |-> LoadOk(result)],
                        !.last = [load |-> l, result |-> result]]
        outcome == IF LoadOk(result)
                   THEN [settled EXCEPT
                            !.devices = IF orphan THEN @ ELSE LoadedDevices(result)]
                   ELSE [settled EXCEPT !.errors = @ + 1, !.dialog = LoadError(result),
                                        !.devices = IF orphan THEN @ ELSE Arr(<<>>)]
    IN IF orphan THEN outcome
       ELSE [outcome EXCEPT !.loading = FALSE, !.refreshing = FALSE]

\* loadDevices after its await: the try block, the catch block and the
\* finally block.  The state updates of a screen that has unmounted are lost;
\* showError is the error dialog of the application.
Settle(scr, l, result) ==
    LET orphan == scr.loads[l].orphan
        settled == [scr EXCEPT
                        !.loads[l] = [pc |-> "done", orphan |-> orphan, wrote |-> LoadOk(result)],
                        !.last = [load |-> l, result |-> result]]
        outcome == IF LoadOk(result)
                   THEN [settled EXCEPT
                            !.devices = IF orphan THEN @ ELSE LoadedDevices(result)]
                   ELSE [settled EXCEPT !.errors = @ + 1, !.dialog = LoadError(result)]
    IN IF orphan THEN outcome
       ELSE [outcome EXCEPT !.loading = FALSE, !.refreshing = FALSE]

\* the promise of getUserData settles and loadDevices goes on
LoadDevicesSettled(l) ==
    /\ screen.loads[l].pc = "fetching"
    /\ \E result \in UserDataResults(l) : screen' = Settle(screen, l, result)
    /\ UNCHANGED <<currentUser, auth, nav, subs>>
    /\ UNCHANGED shellFrame

AppInit ==
    /\ currentUser = NoUser
    /\ calls = [c \in CallIds |-> Idle]
    /\ storedLang = NoLang
    /\ emitted = <<>>
    /\ ScreensIdle
    /\ device = Obj(<<>>)
    /\ now = T0
    /\ view = NoView

\* the route guard: sign-ins, sign-outs and navigation
RoutesNext ==
    \/ UserSignsIn
    \/ UserSignsOut
    \/ AuthStateChanged
    \/ RouteGuard
    \/ Navigate

SpecRoutes == AppInit /\ [][RoutesNext]_vars

\* the listeners and the timer of the provider, with the screen that
\* registers the callback they call
SubscriptionsNext ==
    \/ UserSignsIn
    \/ UserSignsOut
    \/ AuthStateChanged
    \/ RouteGuard
    \/ ProviderEffect
    \/ MountDeviceScreen
    \/ UnmountDeviceScreen
    \/ ScreenEffect
    \/ \E by \in RefreshEvents : RefreshEvent(by)

SpecSubscriptions == AppInit /\ [][SubscriptionsNext]_vars

\* the device list screen in the first session of the application
DeviceScreenNext ==
    \/ (auth.signIns = 0 /\ UserSignsIn)
    \/ UserSignsOut
    \/ AuthStateChanged
    \/ RouteGuard
    \/ ProviderEffect
    \/ MountDeviceScreen
    \/ UnmountDeviceScreen
    \/ ScreenEffect
    \/ ScreenFocused
    \/ PullToRefresh
    \/ \E by \in RefreshEvents : RefreshEvent(by)
    \/ \E l \in LoadIds : LoadDevicesSettled(l)

SpecDeviceScreen == AppInit /\ [][DeviceScreenNext]_vars

(***************************************************************************)
(* The readings of a card: getBatteryStatus, getTemperature, getHumidity,  *)
(* and the state text of getDeviceState over the legacy snapshots.         *)
(***************************************************************************)
\* device.battery?.[0]?.charge_status || '-'
getBatteryStatus(d) ==
    Or(OptGet(OptIndex(Get(d, "battery"), 0), "charge_status"), Str("-"))

getTemperature(d) ==
    IF StrictEq(OptGet(Get(d, "type"), "types_name"), Str("termo"))
    THEN LET temp == OptGet(OptIndex(Get(d, "last_termo_data"), 0), "temperature")
         IN IF Truthy(temp) THEN Template(temp, "°C") ELSE Null
    ELSE Null

getHumidity(d) ==
    IF StrictEq(OptGet(Get(d, "type"), "types_name"), Str("termo"))
    THEN LET humidity == OptGet(OptIndex(Get(d, "last_termo_data"), 0), "humidity")
         IN IF Truthy(humidity) THEN Template(humidity, "%") ELSE Null
    ELSE Null

BatteryValues ==
    {Undef, Null, Arr(<<>>), Arr(<<Obj(<<>>)>>)}
    \cup {Arr(<<Obj([charge_status |-> v])>>) :
            v \in {Null, Num(0), Num(55), Num(100), Str(""), Str("80")}}
ClimateValues ==
    {Undef, Arr(<<>>), Arr(<<Obj(<<>>)>>)}
    \cup {Arr(<<Obj([temperature |-> t, humidity |-> h])>>) :
            t \in {Null, Num(0), Num(-5), Num(21)}, h \in {Null, Num(0), Num(40)}}
ReadingDevices ==
    {Obj([battery |-> b, type |-> ty, last_termo_data |-> td]) :
        b \in BatteryValues, ty \in TypeValues, td \in ClimateValues}

\* the card shows the readings of its device
RenderReadings ==
    /\ view = NoView
    /\ view' = [rendered |-> TRUE,
                battery |-> getBatteryStatus(device),
                temperature |-> getTemperature(device),
                humidity |-> getHumidity(device)]
    /\ UNCHANGED <<device, now>>
    /\ UNCHANGED requestVars
    /\ UNCHANGED screenVars

ReadingsInit ==
    /\ device \in ReadingDevices
    /\ now = T0
    /\ view = NoView
    /\ currentUser = NoUser
    /\ calls = [c \in CallIds |-> Idle]
    /\ storedLang = NoLang
    /\ emitted = <<>>
    /\ ScreensIdle

SpecReadings == ReadingsInit /\ [][RenderReadings]_vars

LegacySnapshots ==
    LegacyValues
    \cup {Arr(<<>>), Arr(<<Obj(<<>>)>>)}
    \cup {Arr(<<Obj([alarm |-> a])>>) : a \in {Null, Num(2), Str("1")}}
StateTextDevices ==
    {Obj([type |-> ty, last_termo_data |-> td, last_watch_family_data |-> f,
          last_watch_data |-> lw]) :
        ty \in TypeValues, td \in {Undef, Arr(<<Obj([temperature |-> Num(21)])>>)},
        f \in FamilyValues, lw \in LegacySnapshots}

\* the card shows the state text of its device
RenderStateText ==
    /\ view = NoView
    /\ view' = [rendered |-> TRUE, deviceState |-> getDeviceState(device)]
    /\ UNCHANGED <<device, now>>
    /\ UNCHANGED requestVars
    /\ UNCHANGED screenVars

StateTextInit ==
    /\ device \in StateTextDevices
    /\ now = T0
    /\ view = NoView
    /\ currentUser = NoUser
    /\ calls = [c \in CallIds |-> Idle]
    /\ storedLang = NoLang
    /\ emitted = <<>>
    /\ ScreensIdle

SpecStateText == StateTextInit /\ [][RenderStateText]_vars

\* changeLangOnServer alone
LangNext ==
    \E c \in CallIds :
        \/ StartChangeLang(c)
        \/ TokenResolved(c)
        \/ TokenRejected(c)
        \/ StorageResolved(c)
        \/ StorageRejected(c)
        \/ FetchRejected(c)
        \/ FetchResolved(c)
        \/ JsonRejected(c)
        \/ LangJsonResolved(c)
        \/ SignIn
        \/ SignOut

SpecLang == RequestsInit /\ [][LangNext]_vars

\* calls that carry a token to the server: getUserData and
\* makeAuthenticatedRequest of the request layer, and the login
AuthCallsInit ==
    /\ currentUser = NoUser
    /\ calls = [c \in CallIds |-> Idle]
    /\ storedLang = "en"
    /\ emitted = <<>>
    /\ ScreensIdle
    /\ device = Obj(<<>>)
    /\ now = T0
    /\ view = NoView

AuthCallsNext ==
    \E c \in CallIds :
        \/ StartGetUserData(c)
        \/ StartMakeAuthenticatedRequest(c)
        \/ TokenResolved(c)
        \/ TokenRejected(c)
        \/ FetchRejected(c)
        \/ FetchResolved(c)
        \/ JsonRejected(c)
        \/ DataJsonResolved(c)
        \/ SubmitLogin(c)
        \/ SignInResolved(c)
        \/ SignInRejected(c)
        \/ IdTokenResolved(c)
        \/ IdTokenRejected(c)
        \/ LoginFetchRejected(c)
        \/ LoginFetchResolved(c)
        \/ LoginJsonRejected(c)
        \/ LoginJsonResolved(c)
        \/ LoginLangSettled(c)
        \/ SignIn
        \/ SignOut

SpecAuthCalls == AuthCallsInit /\ [][AuthCallsNext]_vars

\* the login screen with its dialogs
LoginNext ==
    \E c \in CallIds :
        \/ SubmitLogin(c)
        \/ SignInResolved(c)
        \/ SignInRejected(c)
        \/ IdTokenResolved(c)
        \/ IdTokenRejected(c)
        \/ LoginFetchRejected(c)
        \/ LoginFetchResolved(c)
        \/ LoginJsonRejected(c)
        \/ LoginJsonResolved(c)
        \/ LoginLangSettled(c)
        \/ ReportAuthError(c)
        \/ DismissAlert(c)
        \/ PressRetry(c)
        \/ SignOut

SpecLogin == RequestsInit /\ [][LoginNext]_vars

(***************************************************************************)
(* Properties of the device-status derivation                              *)
(***************************************************************************)
Statuses == {"ok", "alarm", "warning", "ko"}

\* the record with one property replaced (Undef: removed)
WithField(d, k, v) == Obj([d.f EXCEPT ![k] = v])

FamilyOf(d) == OptIndex(Get(d, "last_watch_family_data"), 0)
StateNameOf(d) == OptGet(OptGet(FamilyOf(d), "state"), "state_name")
IsAlarming(d) == OptGet(OptGet(FamilyOf(d), "state"), "is_alarm") = Bool(TRUE)
ModeIsOn(d) == ModeIdOf(d) = Num(1)
TypeNameOf(d) == OptGet(Get(d, "type"), "types_name")
TemperatureOf(d) == OptGet(OptIndex(Get(d, "last_termo_data"), 0), "temperature")
UpdatedOnOf(d) == Get(d, "updated_on")
ActiveNames == {Str("OK"), Str("ARMED"), Str("MONITORING")}
InactiveNames == {Str("DISARMED"), Str("OFF"), Str("DISCONNECTED")}
FamilyTierMatches(d) ==
    FamilyOf(d).t = "object"
    /\ (IsAlarming(d) \/ StateNameOf(d) \in ActiveNames \cup InactiveNames)
TermoTierMatches(d) ==
    TypeNameOf(d) = Str("termo") /\ TemperatureOf(d).t = "number"

\* C1: a rendered record whose mode id is not the number 1 (absent included) has
\* status 'ko' with the label Disconnected, whatever its other fields hold.
C1_ModeOffIsDisconnected ==
    (view.rendered /\ ~ModeIsOn(device))
        => view.connectionState = Result("ko", "Disconnected")

C1_Witness ==
    /\ view.rendered /\ ~ModeIsOn(device) /\ IsAlarming(device)
    /\ TermoTierMatches(device)
    /\ view.connectionState.status = "ko"

\* C2: with mode id 1 and a family snapshot whose state has is_alarm = true the
\* status is 'alarm', for every state name, type and updated_on.
C2_AlarmWins ==
    (view.rendered /\ ModeIsOn(device) /\ IsAlarming(device))
        => view.connectionState = Result("alarm", "Active Alarm")

C2_Witness ==
    /\ view.rendered /\ ModeIsOn(device) /\ IsAlarming(device)
    /\ StateNameOf(device) = Str("ARMED")
    /\ view.connectionState.status = "alarm"

\* C3: with mode id 1, a family snapshot and no alarm, the names OK, ARMED and
\* MONITORING give 'ok' and the names DISARMED, OFF and DISCONNECTED give 'ko',
\* whatever type, last_termo_data and updated_on hold.
C3_StateNamesDecide ==
    (view.rendered /\ ModeIsOn(device) /\ FamilyOf(device).t = "object"
     /\ ~IsAlarming(device))
        => /\ StateNameOf(device) \in ActiveNames
                => view.connectionState = Result("ok", "Connected")
           /\ StateNameOf(device) \in InactiveNames
                => view.connectionState = Result("ko", "Disconnected")

C3_Witness ==
    /\ view.rendered /\ ModeIsOn(device) /\ ~IsAlarming(device)
    /\ StateNameOf(device) = Str("DISCONNECTED")
    /\ TermoTierMatches(device)
    /\ UpdatedOnOf(device) = DateStr(T0 - 2 * MsPerHour)
    /\ view.connectionState.status = "ko"

\* C4: with mode id 1 and a family snapshot that neither alarms nor carries one
\* of the six recognised names, the result is the one the same record gives
\* with last_watch_family_data removed.
C4_FallThrough ==
    (view.rendered /\ ModeIsOn(device) /\ FamilyOf(device).t = "object"
     /\ ~FamilyTierMatches(device))
        => view.connectionState =
             getConnectionState(WithField(device, "last_watch_family_data", Undef), view.at)

C4_Witness ==
    /\ view.rendered /\ ModeIsOn(device) /\ FamilyOf(device).t = "object"
    /\ StateNameOf(device) = Str("LEAK") /\ ~IsAlarming(device)
    /\ TermoTierMatches(device)
    /\ UpdatedOnOf(device) = Undef
    /\ view.connectionState.status = "ok"

\* C5: with mode id 1, no family snapshot, type termo and a numeric temperature
\* (0 and negatives included) the status is 'ok', whatever updated_on holds.
C5_TermoReadingConnects ==
    (view.rendered /\ ModeIsOn(device) /\ FamilyOf(device) = Undef
     /\ TermoTierMatches(device))
        => view.connectionState = Result("ok", "Connected")

C5_Witness ==
    /\ view.rendered /\ ModeIsOn(device) /\ FamilyOf(device) = Undef
    /\ TypeNameOf(device) = Str("termo") /\ TemperatureOf(device) = Num(0)
    /\ UpdatedOnOf(device) = Undef
    /\ view.connectionState.status = "ok"

\* C6: with mode id 1 and neither the family tier nor the termo tier matching,
\* the status is 'ok' iff updated_on is present and less than 24 hours have
\* passed since it; otherwise it is 'warning' with "No recent data available".
ElapsedIsBelow24h(d, nowMs) ==
    /\ UpdatedOnOf(d).t = "string" /\ "iso" \in DOMAIN UpdatedOnOf(d)
    /\ nowMs - UpdatedOnOf(d).iso < 24 * 3600000

C6_RecencyDecides ==
    (view.rendered /\ ModeIsOn(device) /\ ~FamilyTierMatches(device)
     /\ ~TermoTierMatches(device))
        => view.connectionState =
             IF ElapsedIsBelow24h(device, view.at)
             THEN Result("ok", "Connected")
             ELSE Result("warning", "No recent data available")

\* rendered exactly 24 hours after updated_on
C6_Witness ==
    /\ view.rendered /\ ModeIsOn(device) /\ ~FamilyTierMatches(device)
    /\ ~TermoTierMatches(device)
    /\ "iso" \in DOMAIN UpdatedOnOf(device)
    /\ view.at - UpdatedOnOf(device).iso = 24 * 3600000
    /\ view.connectionState.status = "warning"

\* C7: needsAttention is true iff the status of the record is 'alarm' or 'ko'.
C7_AttentionIffAlarmOrKo ==
    view.rendered
        => (view.attention <=> view.connectionState.status \in {"alarm", "ko"})

\* the clock passed the 24 hour limit between the card's two readings of it
C7_Witness ==
    /\ view.rendered /\ now > view.at
    /\ view.connectionState.status = "ok"
    /\ getConnectionState(device, now).status = "warning"
    /\ ~view.attention

\* C8: for every record, malformed ones included, getConnectionState raises no
\* error and returns one of the four statuses, with the label fixed by the status.
LabelOf(status) ==
    CASE status = "ok" -> "Connected"
      [] status = "alarm" -> "Active Alarm"
      [] status = "warning" -> "No recent data available"
      [] status = "ko" -> "Disconnected"
      [] OTHER -> "none"

C8_TotalAndLabelled ==
    view.rendered
        => /\ view.connectionState.status \in Statuses
           /\ view.connectionState.label = LabelOf(view.connectionState.status)

\* no snapshot at all, an unparseable date
C8_Witness ==
    /\ view.rendered /\ ModeIsOn(device)
    /\ Get(device, "last_watch_family_data") = Undef
    /\ Get(device, "type") = Undef
    /\ UpdatedOnOf(device) = Str("n/a")
    /\ view.connectionState.status = "warning"

\* C9 as stated: for type termo neither status nor state text depend on
\* last_watch_family_data, for any other type neither depends on last_termo_data.
SameCard(d) ==
    /\ getConnectionState(d, view.at) = view.connectionState
    /\ getDeviceState(d) = view.deviceState

C9_OneSnapshotAuthoritative ==
    view.rendered
        => IF TypeNameOf(device) = Str("termo")
           THEN \A f \in FamilyValues :
                    SameCard(WithField(device, "last_watch_family_data", f))
           ELSE \A td \in TermoValues :
                    SameCard(WithField(device, "last_termo_data", td))

\* C9 amended: for type termo the state text does not depend on
\* last_watch_family_data (the status does: the family tier is consulted for
\* every type); for any other type neither status nor state text depend on
\* last_termo_data.
C9_StateTextByType ==
    view.rendered
        => IF TypeNameOf(device) = Str("termo")
           THEN \A f \in FamilyValues :
                    getDeviceState(WithField(device, "last_watch_family_data", f))
                        = view.deviceState
           ELSE \A td \in TermoValues :
                    SameCard(WithField(device, "last_termo_data", td))

\* a termo card showing its temperature beside an alarming family snapshot,
\* and a watch card whose record carries a temperature
C9_Witness ==
    /\ view.rendered
    /\ \/ /\ TypeNameOf(device) = Str("termo") /\ IsAlarming(device)
          /\ view.deviceState = Str("21C")
          /\ view.connectionState.status = "alarm"
       \/ /\ TypeNameOf(device) = Str("watch") /\ TemperatureOf(device) = Num(21)
          /\ ModeIsOn(device) /\ FamilyOf(device) = Undef
          /\ view.connectionState.status = "warning"

(***************************************************************************)
(* Properties of the request layer                                         *)
(***************************************************************************)
\* the call found no session when it read firebaseAuth.currentUser
NoSessionCall(c) == calls[c].pc # "idle" /\ calls[c].user = NoUser

\* C10: a call made while no session is active (currentUser is null) ends at
\* once in failure and issues no request, neither the token refresh nor the
\* HTTP call: makeAuthenticatedRequest rejects with the no-token error,
\* getUserData and changeLangOnServer return success = false with the
\* no-user message.
C10_NoSessionNoRequest ==
    \A c \in CallIds :
        NoSessionCall(c)
            => /\ calls[c].pc = "done"
               /\ calls[c].token = 0
               /\ ~calls[c].request.sent
               /\ CASE calls[c].op = "makeAuthenticatedRequest"
                        -> /\ calls[c].result.kind = "rejected"
                           /\ calls[c].result.error.message
                                = "No authentication token available"
                    [] calls[c].op = "getCurrentUserToken"
                        -> calls[c].result = Returned(Null)
                    [] OTHER
                        -> /\ calls[c].result.kind = "returned"
                           /\ calls[c].result.value
                                = [success |-> FALSE, error |-> "No authenticated user found"]

\* one call of makeAuthenticatedRequest and one of the two other operations,
\* both made without a session
C10_Witness ==
    \E c1, c2 \in CallIds :
        /\ NoSessionCall(c1) /\ calls[c1].op = "makeAuthenticatedRequest"
        /\ NoSessionCall(c2) /\ calls[c2].op \in {"getUserData", "changeLangOnServer"}
        /\ calls[c2].result.kind = "returned"

\* the calls of getUserData that have resolved
UserDataDone(c) == calls[c].op = "getUserData" /\ calls[c].pc = "done"
Succeeded(c) == calls[c].result.kind = "returned" /\ calls[c].result.value.success
Failed(c) == calls[c].result.kind = "returned" /\ ~calls[c].result.value.success
\* the call decoded a JSON body
Decoded(c) == calls[c].responseData # Undef
StatusCodeOf(c) == Get(calls[c].responseData, "status_code")
MessageOf(c) == Get(calls[c].responseData, "message")

\* C11: getUserData returns success = false for every decoded body whose
\* status_code is 400 or more, and success = true only when status_code is
\* absent or below 400.
C11_FailureFromStatus400Up ==
    \A c \in CallIds :
        UserDataDone(c) /\ Decoded(c)
            => /\ (StatusCodeOf(c).t = "number" /\ StatusCodeOf(c).n >= 400) => Failed(c)
               /\ Succeeded(c) => (StatusCodeOf(c) = Undef \/ StatusCodeOf(c).n < 400)

EveryStepSucceeded(c) ==
    /\ calls[c].user # NoUser
    /\ calls[c].token # 0
    /\ calls[c].request.sent
    /\ calls[c].response.received
    /\ calls[c].response.ok
    /\ Decoded(c)
    /\ StatusCodeOf(c) # Num(400)

\* C13: getUserData never propagates an exception: at every failure point (no
\* session, token refresh rejected, fetch rejected, non-OK HTTP status, JSON
\* decoding failure, status_code 400) it resolves to {success: false, error:
\* message}, and it resolves to {success: true, data} only when every step
\* succeeded.
C13_GetUserDataNeverThrows ==
    \A c \in CallIds :
        UserDataDone(c)
            => /\ calls[c].result.kind = "returned"
               /\ Succeeded(c) <=> EveryStepSucceeded(c)
               /\ Succeeded(c)
                    => calls[c].result.value
                        = [success |-> TRUE, data |-> calls[c].responseData]
               /\ Failed(c)
                    => /\ DOMAIN calls[c].result.value = {"success", "error"}
                       /\ calls[c].result.value.error # ""
               /\ (calls[c].request.sent /\ ~calls[c].response.received)
                    => calls[c].result.value.error = "Network request failed"
               /\ (calls[c].response.received /\ ~calls[c].response.ok)
                    => calls[c].result.value.error
                        = "Server responded with status: "
                            \o ToString(calls[c].response.status)
               /\ (calls[c].response.received /\ calls[c].response.ok /\ ~Decoded(c))
                    => calls[c].result.value.error = "JSON Parse error"

\* one call that failed at the JSON decoding and one call that succeeded
C13_Witness ==
    \E c1, c2 \in CallIds :
        /\ UserDataDone(c1) /\ Failed(c1)
        /\ calls[c1].response.received /\ calls[c1].response.ok /\ ~Decoded(c1)
        /\ UserDataDone(c2) /\ Succeeded(c2)

\* the call has resolved or rejected
Done(c) == calls[c].pc = "done"
ThrewPast(c) == Done(c) /\ calls[c].result.kind = "rejected"
\* the forced refresh of the call was answered with a token
HasToken(c) == calls[c].token # 0

\* C14 as stated: no operation of the request layer throws past its own
\* boundary; each of getCurrentUserToken, getUserData, changeLangOnServer and
\* makeAuthenticatedRequest returns a tagged result on every failure.
C14_NoOperationThrows ==
    \A c \in CallIds : ~ThrewPast(c)

\* C14, amended: getCurrentUserToken, getUserData and changeLangOnServer never
\* throw past their boundary; makeAuthenticatedRequest throws, with the
\* no-token error when no token is available and with the error of fetch when
\* fetch rejects, and otherwise resolves to the response, whatever its status.
C14_OnlyMakeAuthenticatedRequestThrows ==
    \A c \in CallIds :
        Done(c)
            => IF calls[c].op # "makeAuthenticatedRequest"
               THEN calls[c].result.kind = "returned"
               ELSE /\ ~HasToken(c)
                        <=> calls[c].result
                              = Rejected(Error("No authentication token available"))
                    /\ (HasToken(c) /\ ~calls[c].response.received)
                        <=> calls[c].result = Rejected(Error("Network request failed"))
                    /\ calls[c].response.received
                        <=> calls[c].result = Returned(calls[c].response)

\* makeAuthenticatedRequest rejected because fetch did, next to a
\* changeLangOnServer that failed in its write to storage and returned
C14_Witness ==
    \E c1, c2 \in CallIds :
        /\ ThrewPast(c1) /\ calls[c1].op = "makeAuthenticatedRequest"
        /\ calls[c1].request.sent
        /\ Done(c2) /\ calls[c2].op = "changeLangOnServer"
        /\ HasToken(c2) /\ ~calls[c2].request.sent
        /\ calls[c2].result.kind = "returned"

\* C15: getCurrentUserToken never throws: it returns null when no session is
\* active, null when the forced token refresh fails, and otherwise the token
\* that forced refresh produced.
C15_TokenOrNull ==
    \A c \in CallIds :
        (Done(c) /\ calls[c].op = "getCurrentUserToken")
            => /\ calls[c].result.kind = "returned"
               /\ calls[c].result.value
                    = IF calls[c].user # NoUser /\ HasToken(c)
                      THEN TokenString(calls[c].token)
                      ELSE Null

\* one call refused by the identity provider and one answered with a token
C15_Witness ==
    \E c1, c2 \in CallIds :
        /\ Done(c1) /\ calls[c1].op = "getCurrentUserToken"
        /\ calls[c1].user # NoUser /\ calls[c1].result.value = Null
        /\ Done(c2) /\ calls[c2].op = "getCurrentUserToken"
        /\ calls[c2].result.value = TokenString(calls[c2].token)

\* the call has sent its HTTP request
Sent(c) == calls[c].request.sent
AuthorizationOf(c) == calls[c].request.headers.Authorization
LayerOps == {"getUserData", "changeLangOnServer", "makeAuthenticatedRequest"}

LangDone(c) == calls[c].op = "changeLangOnServer" /\ Done(c)

\* what holds of a resolved changeLangOnServer(lang, uid): with success = true
\* it has sent the PUT for uid carrying lang, got an OK response and emitted
\* one event; with success = false it has emitted none
LangCallSettled(c) ==
    /\ calls[c].result.kind = "returned"
    /\ Succeeded(c)
        => /\ Sent(c)
           /\ calls[c].request.method = "PUT"
           /\ calls[c].request.url
                = endpoint \o "user/" \o calls[c].userId \o "?action=token"
           /\ calls[c].request.body = calls[c].arg.lang
           /\ calls[c].response.ok
           /\ calls[c].events = 1
    /\ Failed(c) => calls[c].events = 0

\* the order of the effects in one step of call c: the PUT is sent by the step
\* that completes the write of lang to storage, and an event is emitted only
\* after the PUT was sent, one at a time, carrying lang, by the step that
\* returns success = true
LangCallStep(c) ==
    /\ (~calls[c].request.sent /\ calls'[c].request.sent)
        => storedLang' = calls'[c].arg.lang
    /\ calls'[c].events # calls[c].events
        => /\ calls[c].request.sent
           /\ calls'[c].events = calls[c].events + 1
           /\ emitted' = Append(emitted, calls[c].arg.lang)
           /\ calls'[c].pc = "done"
           /\ calls'[c].result = Returned([success |-> TRUE])

LangCompleted(c) ==
    calls[c].op = "changeLangOnServer" /\ calls[c].result.kind = "returned"
\* the call of changeLangOnServer got as far as its write to storage
LangWritten(c) == calls[c].op = "changeLangOnServer" /\ Sent(c)
\* a screen has set its language up since the restart
SetUpAfterRestart == lang.restarted /\ lang.active # NoLang

RetryCallbackGiven(c) ==
    \/ calls[c].op = "handleLogin"
    \/ calls[c].op = "handleFirebaseAuthError" /\ calls[c].arg.retryCallback
\* a failure of the network class
NetworkClass(error) ==
    \/ error.code = Str("auth/network-request-failed")
    \/ error.status = Num(500)
RetryOffered(alert) == alert.shown /\ "Reintentar" \in alert.buttons

\* the dialogs: Retry is among the buttons exactly when a callback was given
\* and the failure is of the network class; any other dialog has the one
\* button OK
DialogOfFailure(c) ==
    calls[c].alert.shown
        => /\ calls[c].error.raised
           /\ RetryOffered(calls[c].alert)
                <=> (RetryCallbackGiven(c) /\ NetworkClass(calls[c].error))
           /\ ~RetryOffered(calls[c].alert) => calls[c].alert.buttons = {"OK"}

\* a step in which handleLogin starts in call d: the form was submitted, or
\* Retry was pressed in the dialog of a failed login, which the step closes
LoginStartedByUser(d) ==
    (calls[d].pc = "idle" /\ calls'[d].op = "handleLogin")
        => \/ /\ calls'[d].startedBy = "submit"
              /\ \A c \in CallIds \ {d} : calls'[c] = calls[c]
           \/ /\ calls'[d].startedBy = "retry"
              /\ \E c \in CallIds \ {d} :
                    /\ calls[c].op = "handleLogin"
                    /\ RetryOffered(calls[c].alert)
                    /\ calls'[c] = [calls[c] EXCEPT !.alert = NoAlert]

\* a step in which call c fails: the call ends there with its dialog, and the
\* step starts nothing and sends nothing
FailureEndsCall(c) ==
    (~calls[c].error.raised /\ calls'[c].error.raised)
        => /\ calls'[c].pc = "done"
           /\ calls'[c].alert.shown
           /\ calls'[c].request = calls[c].request
           /\ \A d \in CallIds \ {c} : calls'[d] = calls[d]

\* C19: a login attempt is started only by a user action, the form submitted
\* or Retry pressed in the dialog; a failed login or request is never issued
\* again by the client itself; Retry is offered only when a retry callback was
\* supplied and the failure is of the network class (code
\* auth/network-request-failed or status 500), and every other failure shows
\* a plain error without Retry.
C19_RetryOnlyByUser ==
    /\ [](\A c \in CallIds : DialogOfFailure(c))
    /\ [][\A c \in CallIds : LoginStartedByUser(c) /\ FailureEndsCall(c)]_vars

\* a login failed for the network, the user pressed Retry, and the second
\* attempt was refused by the server with status_code 400: a plain error
C19_Witness ==
    \E c, d \in CallIds :
        /\ calls[c].op = "handleLogin" /\ calls[c].error.raised
        /\ NetworkClass(calls[c].error) /\ ~calls[c].alert.shown
        /\ calls[d].op = "handleLogin" /\ calls[d].startedBy = "retry"
        /\ calls[d].error.raised /\ calls[d].error.status = Num(400)
        /\ calls[d].alert = showError("Bad request")

\* a step that handles a notification, a tap or a tick of the timer
EventHandled == notif'.delivered = notif.delivered + 1

Redirects == nav'.segment # nav.segment /\ nav'.from # "none"

\* C26: once the auth state has loaded and the guard has run, an
\* unauthenticated user is on no (private) route and an authenticated user on
\* no (auth) route: the guard redirects the one to the login and the other to
\* the device list; while the auth state is loading the guard redirects
\* nobody.
C26_RouteGuardSettles ==
    /\ []((~auth.isLoading /\ ~nav.effect)
            => /\ ~(~isAuthenticated /\ nav.segment = "(private)")
               /\ ~(isAuthenticated /\ nav.segment = "(auth)"))
    /\ [][/\ auth.isLoading => nav'.segment = nav.segment
          /\ Redirects => /\ ~auth.isLoading
                          /\ nav'.segment = IF isAuthenticated THEN "(private)" ELSE "(auth)"]_vars

\* a user who signed out on a private route was sent to the login, and the
\* guard has nothing left to do
C26_Witness ==
    /\ nav.from = "(private)"
    /\ nav.segment = "(auth)"
    /\ ~nav.effect
    /\ ~isAuthenticated
    /\ auth.signIns > 0

\* a step in which a listener or the timer calls the refresh callback
CallbackInvoked ==
    /\ screen'.started = screen.started + 1
    /\ screen'.loads[screen'.started].by \in RefreshEvents

\* one timer and one pair of listeners, or none
OneTimerOnePair ==
    \/ subs.timers = 1 /\ subs.listeners = 2
    \/ subs.timers = 0 /\ subs.listeners = 0

\* C27 as it is stated: at most one timer and one pair of listeners at a
\* time, and from a sign-out to the next sign-in no tick and no notification
\* calls the refresh callback.
C27_NoCallbackWhileSignedOut ==
    /\ []OneTimerOnePair
    /\ [][CallbackInvoked => auth.current # 0]_vars

\* C27, amended: the listeners and the timer exist exactly while the last run
\* of the provider's effect was for a user, at most one timer and one pair of
\* listeners at a time; a run of the effect for another user leaves exactly
\* those of that user; they agree with the session once the provider has
\* caught up with it; no tick and no notification calls the refresh callback
\* after the effect has run for the signed-out state.
C27_ListenersFollowTheEffect ==
    /\ [](/\ OneTimerOnePair
          /\ subs.timers = 1 <=> subs.user # 0
          /\ (~auth.isLoading /\ auth.user = auth.current /\ subs.user = auth.user)
                => (subs.timers = 1 <=> auth.current # 0))
    /\ [][/\ CallbackInvoked => subs.user # 0
          /\ subs'.user # subs.user
                => /\ subs'.user = auth.user
                   /\ subs'.timers = IF auth.user # 0 THEN 1 ELSE 0]_vars

\* the effect has run for the user of the second sign-in, whose timer has
\* called the callback
C27_Witness ==
    /\ subs.user = 2
    /\ subs.timers = 1
    /\ screen.started > 0
    /\ screen.loads[screen.started].by = "tick"

\* a step in which load l settles
Settles(l) == screen.loads[l].pc = "fetching" /\ screen'.loads[l].pc = "done"
\* load l belongs to the screen that is mounted
OfTheScreen(l) == screen.loads[l].pc # "idle" /\ ~screen.loads[l].orphan

\* C21: loadDevices fetches every time it is called with a user, whatever is
\* in flight; a fetch in flight is never cancelled, by a later load or by
\* anything else; each load of the mounted screen that settles with data sets
\* the list to its own payload, so the list shown is that of the load that
\* settled last, be it the response to an earlier request.
C21_EveryLoadFetchesAndWrites ==
    /\ [](/\ screen.started = screen.asked
          /\ (/\ screen.mounted
               /\ screen.last.load # 0
               /\ OfTheScreen(screen.last.load)
               /\ LoadOk(screen.last.result))
                => screen.devices = LoadedDevices(screen.last.result))
    /\ [][\A l \in LoadIds :
            /\ screen.loads[l].pc = "fetching" => screen'.loads[l].pc \in {"fetching", "done"}
            /\ screen.loads[l].pc = "done" => screen'.loads[l] = screen.loads[l]
            /\ (Settles(l) /\ OfTheScreen(l) /\ LoadOk(screen'.last.result))
                => /\ screen'.last.load = l
                   /\ screen'.devices = LoadedDevices(screen'.last.result)]_vars

\* the second load wrote first; the first, asked for earlier, settled last and
\* its snapshot is shown
C21_Witness ==
    /\ screen.mounted
    /\ screen.loads[2].pc = "done" /\ screen.loads[2].wrote /\ ~screen.loads[2].orphan
    /\ screen.last.load = 1
    /\ screen.devices = Snapshot(1)

\* C28: a load of the mounted screen that fails (getUserData returns success
\* false, returns no data, or its promise rejects) leaves the list as it was
\* and calls showError once; a load that succeeds sets the list to the devices
\* of its payload, or to the empty list when the payload has none, and shows
\* no error; nothing else changes the list of a mounted screen.
C28_FailedLoadLeavesTheList ==
    [][/\ \A l \in LoadIds :
            (Settles(l) /\ OfTheScreen(l))
                => IF LoadOk(screen'.last.result)
                   THEN /\ screen'.devices = LoadedDevices(screen'.last.result)
                        /\ screen'.devices \in {Snapshot(l), Arr(<<>>)}
                        /\ screen'.errors = screen.errors
                   ELSE /\ screen'.devices = screen.devices
                        /\ screen'.errors = screen.errors + 1
                        /\ screen'.dialog = LoadError(screen'.last.result)
       /\ (screen'.devices # screen.devices /\ screen'.mounted)
            => \E l \in LoadIds : Settles(l) /\ LoadOk(screen'.last.result)]_vars

\* a load of the mounted screen has failed after another had brought a list:
\* the list is still shown, one error was reported
C28_Witness ==
    /\ screen.mounted
    /\ screen.last.load # 0
    /\ OfTheScreen(screen.last.load)
    /\ ~LoadOk(screen.last.result)
    /\ screen.devices # Arr(<<>>)
    /\ screen.errors = 1
    /\ screen.dialog = "No authenticated user found"

\* C29: a pull-to-refresh ends: while refreshing is true a fetch of the
\* screen is in flight, whose end sets refreshing to false on every outcome.
C29_RefreshingHasAFetch ==
    screen.refreshing
        => \E l \in LoadIds : screen.loads[l].pc = "fetching" /\ ~screen.loads[l].orphan

\* C30: a changeLangOnServer that returns success = false leaves the stored
\* language as it was, so the stored language is that of the last call that
\* succeeded: with no call in flight, one call that succeeded and every other
\* call failed, what is stored is the language of the call that succeeded.
C30_StoredIsLastSuccess ==
    (\A c \in CallIds : calls[c].pc \in {"idle", "done"})
        => \A c1 \in CallIds :
            (/\ LangDone(c1) /\ Succeeded(c1)
             /\ \A c2 \in CallIds \ {c1} :
                    calls[c2].pc = "idle" \/ (LangDone(c2) /\ Failed(c2)))
                => storedLang = calls[c1].arg.lang

\* device.battery?.[0]?.charge_status, device.last_termo_data?.[0]?.[field]
ChargeStatus(d) == OptGet(OptIndex(Get(d, "battery"), 0), "charge_status")
ClimateField(d, field) == OptGet(OptIndex(Get(d, "last_termo_data"), 0), field)
IsTermo(d) == StrictEq(OptGet(Get(d, "type"), "types_name"), Str("termo"))

\* C22: getBatteryStatus gives the charge status of the first battery reading
\* whenever it is present, whatever its value (0 too), and "-" only when the
\* reading or its charge status is absent.
C22_ChargeStatusWheneverPresent ==
    view # NoView
        => view.battery = IF IsNullish(ChargeStatus(device)) THEN Str("-")
                          ELSE ChargeStatus(device)

\* C23: getTemperature and getHumidity give null for every record that is not
\* a termo, and for a termo the formatted reading whenever the field of
\* last_termo_data is present (0 too), null only when it is missing.
C23_ClimateOnlyForTermo ==
    view # NoView
        => /\ view.temperature =
                IF IsTermo(device) /\ ~IsNullish(ClimateField(device, "temperature"))
                THEN Template(ClimateField(device, "temperature"), "°C") ELSE Null
           /\ view.humidity =
                IF IsTermo(device) /\ ~IsNullish(ClimateField(device, "humidity"))
                THEN Template(ClimateField(device, "humidity"), "%") ELSE Null

\* the record has family-state data; the alarm of its legacy snapshot
HasFamilyState(d) ==
    LET lastWatchFamilyData == OptIndex(Get(d, "last_watch_family_data"), 0)
    IN Truthy(lastWatchFamilyData) /\ Truthy(Get(lastWatchFamilyData, "state"))
LegacyAlarm(d) == OptGet(OptIndex(Get(d, "last_watch_data"), 0), "alarm")
WithLegacy(d, lw) == Obj([d.f EXCEPT !["last_watch_data"] = lw])

\* C24: for a record that is no termo and has no family-state data the state
\* text is "Alarm" when the alarm of the legacy snapshot is 1, "Normal" for any
\* other alarm value that is not null, and "-" without one; with family-state
\* data the legacy snapshot does not change the text.
C24_LegacyOnlyWithoutFamilyState ==
    view # NoView
        => /\ (~IsTermo(device) /\ ~HasFamilyState(device))
                => view.deviceState =
                        IF LegacyAlarm(device) = Num(1) THEN Str("Alarm")
                        ELSE IF ~IsNullish(LegacyAlarm(device)) THEN Str("Normal")
                        ELSE Str("-")
           /\ HasFamilyState(device)
                => \A lw \in LegacySnapshots :
                        getDeviceState(WithLegacy(device, lw)) = view.deviceState

\* a watch without family-state data whose legacy alarm is 2 shows "Normal"
C24_Witness ==
    /\ view # NoView
    /\ ~IsTermo(device)
    /\ ~HasFamilyState(device)
    /\ LegacyAlarm(device) = Num(2)
    /\ view.deviceState = Str("Normal")

\* the header a request of makeAuthenticatedRequest must carry under name h:
\* the caller's where the caller gave one, the default otherwise
HeaderDue(call, h) ==
    IF h \in DOMAIN call.arg.headers THEN call.arg.headers[h]
    ELSE CASE h = "Accept" -> "application/json"
           [] h = "ContentType" -> "application/json"
           [] h = "Authorization" -> "Bearer " \o ToString(call.token)

====
